---- MODULE Spec2Model ----
(***************************************************************************)
(* Tool discovery, activation and reconciliation engine of context_ai.     *)
(*                                                                         *)
(* The three MongoDB collections (tools, tool_instances, contexts) are      *)
(* sequences of documents in insertion order.  Every handler of the        *)
(* services is one action under Spec (requests served one after another);  *)
(* under SpecConc the handlers are split at their awaits and two requests  *)
(* interleave.                                                             *)
(***************************************************************************)
EXTENDS Integers, Sequences, FiniteSets, TLC

VARIABLES
  tools,      \* db.tools: sequence of Tool documents
  instances,  \* db.tool_instances: sequence of ToolInstance documents
  contexts,   \* db.contexts: sequence of Context documents (with _id)
  nextOid,    \* the ObjectId the context collection assigns next
  now,        \* the wall clock read by datetime.utcnow()
  served,     \* number of requests served so far
  last,       \* the request that completed last, with its outcome
  procs       \* SpecConc only: the requests in flight, one per client

vars == <<tools, instances, contexts, nextOid, now, served, last, procs>>

Range(s) == {s[i] : i \in DOMAIN s}

-----------------------------------------------------------------------------
(* Bounds of the model *)

MaxRequests == 5    \* requests served in one run
MaxTime == 1        \* clock values 0..MaxTime
MaxConcRequests == 4  \* requests started in one run of SpecConc

\* the clients whose requests interleave under SpecConc
Clients == {"p1", "p2"}

\* the ids uuid4 may draw
ToolIdSpace == {"t1", "t2"}
\* the ObjectIds the context collection assigns, in order
ObjectIds == <<"c1">>
\* a well-formed context id that db.contexts never assigns
ForeignContextId == "ext"
\* another one, for the callers of the tool API
OtherContextId == "ext2"
\* every context id of the model
CtxIdSpace == Range(ObjectIds) \cup {ForeignContextId, OtherContextId}

-----------------------------------------------------------------------------
(* Values *)

\* Optional[...] fields: None is the empty sequence, a value v is <<v>>
None == << >>
Some(v) == <<v>>

\* ToolStatus
REGISTERED == "registered"
ACTIVE == "active"
INACTIVE == "inactive"
FAILED == "failed"
ToolStatus == {REGISTERED, ACTIVE, INACTIVE, FAILED}

\* ContentType
ContentType == {"documentation", "infrastructure", "ai_tools"}

\* ToolCapability
ToolCapability == {"documentation", "code_analysis", "infrastructure",
                   "testing", "deployment", "monitoring"}

EmptyMap == << >>

\* dict.update: the entries of b override those of a
DictUpdate(a, b) ==
  [k \in (DOMAIN a) \cup (DOMAIN b) |-> IF k \in DOMAIN b THEN b[k] ELSE a[k]]

\* Texts are sequences of characters
ToLower(ch) ==
  CASE ch = "G" -> "g"
    [] ch = "U" -> "u"
    [] ch = "I" -> "i"
    [] ch = "D" -> "d"
    [] ch = "E" -> "e"
    [] OTHER -> ch

\* re.compile rejects a pattern that opens a group and never closes it
ReError(pattern) ==
  \E i \in DOMAIN pattern :
    /\ pattern[i] = "("
    /\ \A j \in (i + 1)..Len(pattern) : pattern[j] # ")"

\* re.search(pattern, content, re.IGNORECASE) for patterns made of literal
\* characters and "." (any character): a match may start at any offset
ReSearchIgnoreCase(pattern, content) ==
  \E off \in 0..(Len(content) - Len(pattern)) :
    \A i \in 1..Len(pattern) :
      \/ pattern[i] = "."
      \/ ToLower(pattern[i]) = ToLower(content[off + i])

-----------------------------------------------------------------------------
(* Inputs the clients send *)

GuideText == <<"a", " ", "G", "U", "I", "D", "E">>
NotesText == <<"n", "o", "t", "e", "s">>
Contents == {GuideText, NotesText}

\* a metadata object with every required field
FullMetadata == [name |-> "tool", version |-> "1.0.0", description |-> "d"]

\* registration payloads: metadata, capabilities, configuration, patterns,
\* rules
DocTool ==
  [metadata |-> FullMetadata,
   capabilities |-> <<"documentation">>,
   configuration |-> [enabled |-> TRUE, auto_activate |-> TRUE],
   context_patterns |-> << >>,
   activation_rules |-> EmptyMap]
GuideTool ==
  [metadata |-> FullMetadata,
   capabilities |-> <<"testing">>,
   configuration |-> [enabled |-> TRUE, auto_activate |-> TRUE],
   context_patterns |-> << <<"g", "u", "i", "d", "e">> >>,
   activation_rules |-> EmptyMap]
ManualTool ==
  [metadata |-> FullMetadata,
   capabilities |-> <<"documentation">>,
   configuration |-> [enabled |-> TRUE, auto_activate |-> FALSE],
   context_patterns |-> << >>,
   activation_rules |-> EmptyMap]
ToolPayloads == {DocTool, GuideTool, ManualTool}

\* payloads for the matching predicate: by two rules, by nothing, and with a
\* pattern that is not a regular expression
RuleTool ==
  [metadata |-> FullMetadata,
   capabilities |-> <<"testing">>,
   configuration |-> [enabled |-> TRUE, auto_activate |-> FALSE],
   context_patterns |-> << >>,
   activation_rules |-> [env |-> "prod", team |-> "docs"]]
IdleTool ==
  [metadata |-> FullMetadata,
   capabilities |-> <<"testing">>,
   configuration |-> [enabled |-> TRUE, auto_activate |-> FALSE],
   context_patterns |-> << >>,
   activation_rules |-> EmptyMap]
BrokenTool ==
  [metadata |-> FullMetadata,
   capabilities |-> <<"testing">>,
   configuration |-> [enabled |-> TRUE, auto_activate |-> FALSE],
   context_patterns |-> << <<"(">> >>,
   activation_rules |-> [team |-> "docs"]]
MatchPayloads == {DocTool, GuideTool, RuleTool, IdleTool, BrokenTool}

\* the contexts the matching predicate is applied to
MatchContexts ==
  [content : Contents, content_type : {"documentation", "infrastructure"},
   metadata : {EmptyMap, [team |-> "docs"], [env |-> "dev"],
               [env |-> "prod", team |-> "ops"]}]

\* context creation payloads
ContextCreates ==
  [content : Contents, content_type : {"documentation", "infrastructure"},
   metadata : {EmptyMap}]

\* what llm_service.extract_metadata may answer
LLMMetadata == {[type |-> "documentation"]}

-----------------------------------------------------------------------------
(* MongoDB collections *)

\* index of the first document find_one / update_one selects, 0 when none
FirstMatch(matching) ==
  IF matching = {} THEN 0
  ELSE CHOOSE i \in matching : \A j \in matching : i <= j

\* update_one(filter, {"$set": ...}): rewrites the first matching document;
\* modified_count counts it only when the rewrite changed it
UpdateOne(coll, matching, rewritten) ==
  LET i == FirstMatch(matching) IN
  IF i = 0 THEN [coll |-> coll, modified_count |-> 0]
  ELSE [coll |-> [coll EXCEPT ![i] = rewritten[i]],
        modified_count |-> IF rewritten[i] = coll[i] THEN 0 ELSE 1]

\* unique index on tools.id
ToolIdTaken(coll, doc) == \E i \in DOMAIN coll : coll[i].id = doc.id

\* an insert into a collection that has no unique index
InsertToolNoIndex(coll, doc) == [raised |-> FALSE, coll |-> Append(coll, doc)]

\* tool_collection.insert_one under the unique index: DuplicateKeyError
\* leaves the collection as it was
InsertTool(coll, doc) ==
  IF ToolIdTaken(coll, doc) THEN [raised |-> TRUE, coll |-> coll]
  ELSE [raised |-> FALSE, coll |-> Append(coll, doc)]

\* unique compound index on tool_instances (tool_id, context_id)
InstanceKeyTaken(coll, doc) ==
  \E i \in DOMAIN coll :
    coll[i].tool_id = doc.tool_id /\ coll[i].context_id = doc.context_id

InsertInstanceNoIndex(coll, doc) == [raised |-> FALSE, coll |-> Append(coll, doc)]

\* instance_collection.insert_one under the unique index
InsertInstance(coll, doc) ==
  IF InstanceKeyTaken(coll, doc) THEN [raised |-> TRUE, coll |-> coll]
  ELSE [raised |-> FALSE, coll |-> Append(coll, doc)]

-----------------------------------------------------------------------------
(* MCPServer *)

\* a ToolInstance as pydantic builds it: unset Optional fields are None
ToolInstance(tool_id, context_id, status, activated_at, error_message) ==
  [tool_id |-> tool_id, context_id |-> context_id, status |-> status,
   activated_at |-> activated_at, deactivated_at |-> None,
   error_message |-> error_message, resources |-> EmptyMap]

\* the document insert_one stores for an instance; updated_at is the key
\* update_tool_status adds later
InstanceDoc(instance) ==
  [tool_id |-> instance.tool_id, context_id |-> instance.context_id,
   status |-> instance.status, activated_at |-> instance.activated_at,
   deactivated_at |-> instance.deactivated_at,
   error_message |-> instance.error_message,
   resources |-> instance.resources, updated_at |-> None]

\* ToolInstance(**document): the model's fields of a stored document
AsToolInstance(doc) ==
  [tool_id |-> doc.tool_id, context_id |-> doc.context_id,
   status |-> doc.status, activated_at |-> doc.activated_at,
   deactivated_at |-> doc.deactivated_at, error_message |-> doc.error_message,
   resources |-> doc.resources]

\* _tool_matches_context raises re.error: no capability matched, and the
\* pattern loop reaches a pattern that does not compile before one that matches
MatchRaises(tool, context) ==
  /\ \A i \in DOMAIN tool.capabilities :
       tool.capabilities[i] # context.content_type
  /\ \E i \in DOMAIN tool.context_patterns :
       /\ ReError(tool.context_patterns[i])
       /\ \A j \in 1..(i - 1) :
            /\ ~ReError(tool.context_patterns[j])
            /\ ~ReSearchIgnoreCase(tool.context_patterns[j], context.content)

\* a predicate that wants every activation rule satisfied
ToolMatchesContextAllRules(tool, context) ==
  \/ \E i \in DOMAIN tool.capabilities :
       tool.capabilities[i] = context.content_type
  \/ \E i \in DOMAIN tool.context_patterns :
       /\ ~ReError(tool.context_patterns[i])
       /\ ReSearchIgnoreCase(tool.context_patterns[i], context.content)
  \/ /\ DOMAIN tool.activation_rules # {}
     /\ \A k \in DOMAIN tool.activation_rules :
          /\ k \in DOMAIN context.metadata
          /\ context.metadata[k] = tool.activation_rules[k]

\* a predicate that never selects a tool registered with enabled = false
ToolMatchesContextWhenEnabled(tool, context) ==
  /\ tool.configuration.enabled
  /\ \/ \E i \in DOMAIN tool.capabilities :
          tool.capabilities[i] = context.content_type
     \/ \E i \in DOMAIN tool.context_patterns :
          /\ ~ReError(tool.context_patterns[i])
          /\ ReSearchIgnoreCase(tool.context_patterns[i], context.content)
     \/ \E k \in DOMAIN tool.activation_rules :
          /\ k \in DOMAIN context.metadata
          /\ context.metadata[k] = tool.activation_rules[k]

\* _tool_matches_context, when it returns
ToolMatchesContext(tool, context) ==
  \/ \E i \in DOMAIN tool.capabilities :
       tool.capabilities[i] = context.content_type
  \/ \E i \in DOMAIN tool.context_patterns :
       /\ ~ReError(tool.context_patterns[i])
       /\ ReSearchIgnoreCase(tool.context_patterns[i], context.content)
  \/ \E k \in DOMAIN tool.activation_rules :
       /\ k \in DOMAIN context.metadata
       /\ context.metadata[k] = tool.activation_rules[k]

\* discover_tools: the catalog scanned in full, matches in catalog order; an
\* exception raised during the scan is caught and the empty list returned
DiscoverTools(toolsColl, context) ==
  IF \E i \in DOMAIN toolsColl : MatchRaises(toolsColl[i], context)
  THEN << >>
  ELSE SelectSeq(toolsColl, LAMBDA tool : ToolMatchesContext(tool, context))

DuplicateKeyError == "E11000 duplicate key error"

\* the response of activate_tool when it signals a failure
ActivationFailure(tool_id, context_id, error, message) ==
  [instance |-> ToolInstance(tool_id, context_id, FAILED, None, Some(error)),
   message |-> message, success |-> FALSE]

\* a lookup that forgets the check of find_one's result
ActivateLookupUnchecked(toolsColl, tool_id, context_id, clock) ==
  [found |-> TRUE,
   instance |-> ToolInstance(tool_id, context_id, ACTIVE, Some(clock), None),
   response |-> None]

\* config = request.configuration_override or tool.configuration; the
\* instance built before it has no field for it and nothing reads it after
EffectiveConfiguration(configuration_override, tool) ==
  IF configuration_override # None THEN configuration_override[1]
  ELSE tool.configuration

\* activate_tool up to its insert: find_one on the catalog, then the
\* instance it builds for the tool found
ActivateLookup(toolsColl, tool_id, context_id, clock) ==
  LET i == FirstMatch({j \in DOMAIN toolsColl : toolsColl[j].id = tool_id}) IN
  IF i = 0
  THEN [found |-> FALSE, instance |-> None,
        response |-> ActivationFailure(tool_id, context_id, "Tool not found",
                                       "Tool not found")]
  ELSE [found |-> TRUE,
        instance |-> ToolInstance(toolsColl[i].id, context_id, ACTIVE,
                                  Some(clock), None),
        response |-> None]

\* a store step that writes the FAILED instance over the record in the way
ActivateStorePersistingFailure(instColl, tool_id, context_id, instance) ==
  LET ins == InsertInstance(instColl, InstanceDoc(instance))
      failure == ActivationFailure(tool_id, context_id, DuplicateKeyError,
                                   "Error activating tool")
  IN
  IF ins.raised
  THEN [instances |->
          [i \in DOMAIN instColl |->
             IF instColl[i].tool_id = tool_id
                  /\ instColl[i].context_id = context_id
             THEN InstanceDoc(failure.instance) ELSE instColl[i]],
        response |-> failure]
  ELSE [instances |-> ins.coll,
        response |-> [instance |-> instance,
                      message |-> "Tool activated successfully",
                      success |-> TRUE]]

\* activate_tool from its insert on: the instance collection afterwards and
\* the response; an exception of insert_one becomes a failure response
ActivateStore(instColl, tool_id, context_id, instance) ==
  LET ins == InsertInstance(instColl, InstanceDoc(instance)) IN
  IF ins.raised
  THEN [instances |-> instColl,
        response |-> ActivationFailure(tool_id, context_id, DuplicateKeyError,
                                       "Error activating tool")]
  ELSE [instances |-> ins.coll,
        response |-> [instance |-> instance,
                      message |-> "Tool activated successfully",
                      success |-> TRUE]]

\* an activation that stores the FAILED instance of a tool it did not find
ActivateToolRecordingFailure(toolsColl, instColl, tool_id, context_id, clock) ==
  LET look == ActivateLookup(toolsColl, tool_id, context_id, clock) IN
  IF ~look.found
  THEN [instances |-> Append(instColl, InstanceDoc(look.response.instance)),
        response |-> look.response]
  ELSE ActivateStore(instColl, tool_id, context_id, look.instance)

\* activate_tool: the instance collection afterwards and the response
ActivateTool(toolsColl, instColl, tool_id, context_id, clock) ==
  LET look == ActivateLookup(toolsColl, tool_id, context_id, clock) IN
  IF ~look.found
  THEN [instances |-> instColl, response |-> look.response]
  ELSE ActivateStore(instColl, tool_id, context_id, look.instance)

\* a filter that forgets the status condition
DeactivateFilterAnyStatus(doc, tool_id, context_id) ==
  doc.tool_id = tool_id /\ doc.context_id = context_id

\* the filter of deactivate_tool's update_one
DeactivateFilter(doc, tool_id, context_id) ==
  doc.tool_id = tool_id /\ doc.context_id = context_id /\ doc.status = ACTIVE

\* a deactivation that drops the record it finds ACTIVE
DeactivateToolRemoving(instColl, tool_id, context_id, clock) ==
  LET i == FirstMatch({j \in DOMAIN instColl :
                         DeactivateFilter(instColl[j], tool_id, context_id)})
  IN IF i = 0 THEN [instances |-> instColl, ret |-> FALSE]
     ELSE [instances |-> SubSeq(instColl, 1, i - 1)
                           \o SubSeq(instColl, i + 1, Len(instColl)),
           ret |-> TRUE]

\* a deactivation that rewrites every record that is not INACTIVE yet
DeactivateToolNotInactive(instColl, tool_id, context_id, clock) ==
  LET upd == UpdateOne(instColl,
                       {i \in DOMAIN instColl :
                          /\ instColl[i].tool_id = tool_id
                          /\ instColl[i].context_id = context_id
                          /\ instColl[i].status # INACTIVE},
                       [i \in DOMAIN instColl |->
                          [instColl[i] EXCEPT !.status = INACTIVE,
                                              !.deactivated_at = Some(clock)]])
  IN [instances |-> upd.coll, ret |-> upd.modified_count > 0]

\* a deactivation that also forgets when the instance was activated
DeactivateToolForgettingActivation(instColl, tool_id, context_id, clock) ==
  LET upd == UpdateOne(instColl,
                       {i \in DOMAIN instColl :
                          DeactivateFilter(instColl[i], tool_id, context_id)},
                       [i \in DOMAIN instColl |->
                          [instColl[i] EXCEPT !.status = INACTIVE,
                                              !.activated_at = None,
                                              !.deactivated_at = Some(clock)]])
  IN [instances |-> upd.coll, ret |-> upd.modified_count > 0]

\* deactivate_tool: the instance collection afterwards and the returned bool
DeactivateTool(instColl, tool_id, context_id, clock) ==
  LET upd == UpdateOne(instColl,
                       {i \in DOMAIN instColl :
                          DeactivateFilter(instColl[i], tool_id, context_id)},
                       [i \in DOMAIN instColl |->
                          [instColl[i] EXCEPT !.status = INACTIVE,
                                              !.deactivated_at = Some(clock)]])
  IN [instances |-> upd.coll, ret |-> upd.modified_count > 0]

\* a listing that forgets the status condition
GetActiveToolsAnyStatus(instColl, context_id) ==
  LET found == SelectSeq(instColl, LAMBDA doc : doc.context_id = context_id)
  IN [i \in DOMAIN found |-> AsToolInstance(found[i])]

\* get_active_tools: find on context_id and status ACTIVE, in stored order
GetActiveTools(instColl, context_id) ==
  LET found == SelectSeq(instColl,
                         LAMBDA doc : /\ doc.context_id = context_id
                                      /\ doc.status = ACTIVE)
  IN [i \in DOMAIN found |-> AsToolInstance(found[i])]

-----------------------------------------------------------------------------
(* ToolService *)

\* Tool(id=str(uuid.uuid4()), ...): the registered document
Tool(id, payload) ==
  [id |-> id, metadata |-> payload.metadata,
   capabilities |-> payload.capabilities,
   configuration |-> payload.configuration,
   context_patterns |-> payload.context_patterns,
   activation_rules |-> payload.activation_rules]

\* capabilities: List[ToolCapability] accepts the values of the enum only
ValidCapabilities(capabilities) ==
  \A i \in DOMAIN capabilities : capabilities[i] \in ToolCapability

\* register_tool: Tool(...) raises on capabilities outside the enum, before
\* anything is stored; it raises too when mcp_server.register_tool reports
\* failure
RegisterTool(toolsColl, id, payload) ==
  IF ~ValidCapabilities(payload.capabilities)
  THEN [tools |-> toolsColl, raised |-> TRUE, ret |-> None]
  ELSE
    LET ins == InsertTool(toolsColl, Tool(id, payload)) IN
    [tools |-> ins.coll, raised |-> ins.raised,
     ret |-> IF ins.raised THEN None ELSE Some(Tool(id, payload))]

\* a validation that asks for the name only
ValidToolMetadataNameOnly(metadata) == "name" \in DOMAIN metadata

\* ToolMetadata(**tool_data["metadata"]): name, version and description
\* are required
ValidToolMetadata(metadata) ==
  {"name", "version", "description"} \subseteq DOMAIN metadata

\* the handler of POST /tools/register: the metadata is validated first, and
\* every exception becomes an HTTP 400
RegisterToolEndpoint(toolsColl, id, tool_data) ==
  IF ~ValidToolMetadata(tool_data.metadata)
  THEN [tools |-> toolsColl, raised |-> TRUE, ret |-> None]
  ELSE RegisterTool(toolsColl, id, tool_data)

AutoActivate(tool) == tool.configuration.auto_activate

\* auto_discover_and_activate(context): context is the Context model, which
\* has no field id, so str(context.id) raises AttributeError at the first
\* discovered tool with auto_activate, before any activation
AutoDiscoverAndActivate(toolsColl, instColl, context) ==
  LET discovered == DiscoverTools(toolsColl, context) IN
  IF \E i \in DOMAIN discovered : AutoActivate(discovered[i])
  THEN [raised |-> TRUE, instances |-> instColl, active_tools |-> << >>,
        calls |-> << >>]
  ELSE [raised |-> FALSE, instances |-> instColl, active_tools |-> << >>,
        calls |-> << >>]

\* an update that refuses to touch an INACTIVE record
UpdateToolStatusGuarded(instColl, tool_id, context_id, status, error_message, clock) ==
  LET upd == UpdateOne(instColl,
                {i \in DOMAIN instColl :
                   /\ instColl[i].tool_id = tool_id
                   /\ instColl[i].context_id = context_id
                   /\ instColl[i].status # INACTIVE},
                [i \in DOMAIN instColl |->
                   [instColl[i] EXCEPT !.status = status,
                                       !.updated_at = Some(clock)]])
  IN [instances |-> upd.coll, ret |-> upd.modified_count > 0]

\* a status update with upsert: a pair without a record gets one
UpdateToolStatusUpserting(instColl, tool_id, context_id, status, error_message, clock) ==
  IF \E i \in DOMAIN instColl :
       instColl[i].tool_id = tool_id /\ instColl[i].context_id = context_id
  THEN LET upd == UpdateOne(instColl,
                    {i \in DOMAIN instColl :
                       /\ instColl[i].tool_id = tool_id
                       /\ instColl[i].context_id = context_id},
                    [i \in DOMAIN instColl |->
                       [instColl[i] EXCEPT !.status = status,
                                           !.updated_at = Some(clock)]])
       IN [instances |-> upd.coll, ret |-> upd.modified_count > 0]
  ELSE [instances |->
          Append(instColl,
                 [InstanceDoc(ToolInstance(tool_id, context_id, status, None,
                                           error_message))
                    EXCEPT !.updated_at = Some(clock)]),
        ret |-> FALSE]

\* truth value of an Optional[str]: None and "" are falsy
Truthy(text) == text # None /\ text[1] # ""

\* update_tool_status: error_message is written only when truthy
UpdateToolStatus(instColl, tool_id, context_id, status, error_message, clock) ==
  LET upd == UpdateOne(instColl,
                {i \in DOMAIN instColl :
                   /\ instColl[i].tool_id = tool_id
                   /\ instColl[i].context_id = context_id},
                [i \in DOMAIN instColl |->
                   IF Truthy(error_message)
                   THEN [instColl[i] EXCEPT !.status = status,
                                            !.updated_at = Some(clock),
                                            !.error_message = error_message]
                   ELSE [instColl[i] EXCEPT !.status = status,
                                            !.updated_at = Some(clock)]])
  IN [instances |-> upd.coll, ret |-> upd.modified_count > 0]

-----------------------------------------------------------------------------
(* ContextService *)

Call(fn, tool_id, context_id, ok) ==
  [fn |-> fn, tool_id |-> tool_id, context_id |-> context_id, ok |-> ok]

ToolIds(toolSeq) == {toolSeq[i].id : i \in DOMAIN toolSeq}
InstanceToolIds(instSeq) == {instSeq[i].tool_id : i \in DOMAIN instSeq}

\* the loop of delete_context over the active instances
RECURSIVE DeactivateAll(_, _, _, _)
DeactivateAll(active_tools, st, context_id, clock) ==
  IF active_tools = << >> THEN st
  ELSE
    LET tool == Head(active_tools)
        d == DeactivateTool(st.instances, tool.tool_id, context_id, clock)
    IN DeactivateAll(Tail(active_tools),
                     [instances |-> d.instances,
                      calls |-> Append(st.calls,
                                  Call("deactivate_tool", tool.tool_id,
                                       context_id, d.ret))],
                     context_id, clock)

\* first loop of _update_tools_for_context, over the active instances read
\* at its start
RECURSIVE DeactivateIrrelevant(_, _, _, _, _)
DeactivateIrrelevant(current_tools, discovered_tool_ids, st, context_id, clock) ==
  IF current_tools = << >> THEN st
  ELSE
    LET tool == Head(current_tools)
        d == DeactivateTool(st.instances, tool.tool_id, context_id, clock)
        nxt == IF tool.tool_id \notin discovered_tool_ids
               THEN [instances |-> d.instances,
                     calls |-> Append(st.calls,
                                 Call("deactivate_tool", tool.tool_id,
                                      context_id, d.ret))]
               ELSE st
    IN DeactivateIrrelevant(Tail(current_tools), discovered_tool_ids, nxt,
                            context_id, clock)

\* a second loop that forgets which tools were already active
\* a condition that forgets which tools are active already
ShouldActivateAny(tool, current_tool_ids) == AutoActivate(tool)

\* the condition under which the second loop activates a discovered tool
ShouldActivate(tool, current_tool_ids) ==
  tool.id \notin current_tool_ids /\ AutoActivate(tool)

\* second loop of _update_tools_for_context, over the discovered tools
RECURSIVE ActivateDiscovered(_, _, _, _, _, _)
ActivateDiscovered(discovered_tools, current_tool_ids, toolsColl, st, c, clock) ==
  IF discovered_tools = << >> THEN st
  ELSE
    LET tool == Head(discovered_tools)
        a == ActivateTool(toolsColl, st.instances, tool.id, c, clock)
        nxt == IF ShouldActivate(tool, current_tool_ids)
               THEN [instances |-> a.instances,
                     calls |-> Append(st.calls,
                                 Call("activate_tool", tool.id, c,
                                      a.response.success))]
               ELSE st
    IN ActivateDiscovered(Tail(discovered_tools), current_tool_ids, toolsColl,
                          nxt, c, clock)

\* a reconciliation that sheds every active tool outside the auto-activating
\* part of the discovered set
UpdateToolsForContextAutoOnly(toolsColl, instColl, context, context_id, clock) ==
  LET current_tools == GetActiveTools(instColl, context_id)
      current_tool_ids == InstanceToolIds(current_tools)
      discovered_tools == DiscoverTools(toolsColl, context)
      wanted_tool_ids == ToolIds(SelectSeq(discovered_tools, AutoActivate))
      shed == DeactivateIrrelevant(current_tools, wanted_tool_ids,
                                   [instances |-> instColl, calls |-> << >>],
                                   context_id, clock)
  IN ActivateDiscovered(discovered_tools, current_tool_ids, toolsColl, shed,
                        context_id, clock)

\* a reconciliation that activates before it deactivates
UpdateToolsForContextActivatingFirst(toolsColl, instColl, context, context_id, clock) ==
  LET current_tools == GetActiveTools(instColl, context_id)
      current_tool_ids == InstanceToolIds(current_tools)
      discovered_tools == DiscoverTools(toolsColl, context)
      discovered_tool_ids == ToolIds(discovered_tools)
      added == ActivateDiscovered(discovered_tools, current_tool_ids,
                                  toolsColl,
                                  [instances |-> instColl, calls |-> << >>],
                                  context_id, clock)
  IN DeactivateIrrelevant(current_tools, discovered_tool_ids, added,
                          context_id, clock)

\* _update_tools_for_context: the instance collection afterwards and the
\* activation-manager calls issued, in order
UpdateToolsForContext(toolsColl, instColl, context, context_id, clock) ==
  LET current_tools == GetActiveTools(instColl, context_id)
      current_tool_ids == InstanceToolIds(current_tools)
      discovered_tools == DiscoverTools(toolsColl, context)
      discovered_tool_ids == ToolIds(discovered_tools)
      shed == DeactivateIrrelevant(current_tools, discovered_tool_ids,
                                   [instances |-> instColl, calls |-> << >>],
                                   context_id, clock)
  IN ActivateDiscovered(discovered_tools, current_tool_ids, toolsColl, shed,
                        context_id, clock)

\* self.collection.find_one({"_id": ObjectId(context_id)})
FindContext(ctxColl, context_id) ==
  FirstMatch({i \in DOMAIN ctxColl : ctxColl[i]._id = context_id})

\* delete_one({"_id": ...})
DeleteOne(coll, matching) ==
  LET i == FirstMatch(matching) IN
  IF i = 0 THEN [coll |-> coll, deleted_count |-> 0]
  ELSE [coll |-> SubSeq(coll, 1, i - 1) \o SubSeq(coll, i + 1, Len(coll)),
        deleted_count |-> 1]

-----------------------------------------------------------------------------
(* Requests served one at a time: every handler is one action *)

\* the record of a completed request
Completed(op, tool_id, context_id, input, ret, raised, calls) ==
  [op |-> op, tool_id |-> tool_id, context_id |-> context_id, input |-> input,
   ret |-> ret, raised |-> raised, calls |-> calls]

NoId == "-"

\* a client with no request in flight and none completed
Idle == [pc |-> "idle", overlap |-> {}, earlier |-> {}]

Init ==
  /\ tools = << >>
  /\ instances = << >>
  /\ contexts = << >>
  /\ nextOid = 1
  /\ now = 0
  /\ served = 0
  /\ last = Completed("startup", NoId, NoId, None, None, FALSE, << >>)
  /\ procs = [p \in Clients |-> Idle]

\* a request is served and its outcome recorded
Serve(completed) ==
  /\ served < MaxRequests
  /\ served' = served + 1
  /\ last' = completed

\* time passes
Tick ==
  /\ now < MaxTime
  /\ now' = now + 1
  /\ UNCHANGED <<tools, instances, contexts, nextOid, served, last, procs>>

\* POST /tools/register
RegisterToolReq(id, payload) ==
  LET r == RegisterToolEndpoint(tools, id, payload) IN
  /\ Serve(Completed("register_tool", id, NoId, Some(payload), r.ret,
                     r.raised, << >>))
  /\ tools' = r.tools
  /\ UNCHANGED <<instances, contexts, nextOid, now, procs>>

\* POST /tools/{tool_id}/activate/{context_id}
ActivateToolReq(tool_id, context_id, configuration_override) ==
  LET r == ActivateTool(tools, instances, tool_id, context_id, now) IN
  /\ Serve(Completed("activate_tool", tool_id, context_id,
                     configuration_override, r.response, FALSE, << >>))
  /\ instances' = r.instances
  /\ UNCHANGED <<tools, contexts, nextOid, now, procs>>

\* POST /tools/{tool_id}/deactivate/{context_id}
DeactivateToolReq(tool_id, context_id) ==
  LET r == DeactivateTool(instances, tool_id, context_id, now) IN
  /\ Serve(Completed("deactivate_tool", tool_id, context_id, None, r.ret,
                     FALSE, << >>))
  /\ instances' = r.instances
  /\ UNCHANGED <<tools, contexts, nextOid, now, procs>>

\* PATCH /tools/{tool_id}/status/{context_id}
UpdateToolStatusReq(tool_id, context_id, status, error_message) ==
  LET r == UpdateToolStatus(instances, tool_id, context_id, status,
                            error_message, now) IN
  /\ Serve(Completed("update_tool_status", tool_id, context_id,
                     Some([status |-> status, error_message |-> error_message]),
                     r.ret, FALSE, << >>))
  /\ instances' = r.instances
  /\ UNCHANGED <<tools, contexts, nextOid, now, procs>>

\* POST /contexts/: create_context
CreateContextReq(input, llm_metadata) ==
  LET context == [content |-> input.content,
                  content_type |-> input.content_type,
                  metadata |-> DictUpdate(input.metadata, llm_metadata)]
      context_id == ObjectIds[nextOid]
      doc == [_id |-> context_id, content |-> context.content,
              content_type |-> context.content_type,
              metadata |-> context.metadata]
      auto == AutoDiscoverAndActivate(tools, instances, context)
  IN
  /\ nextOid \in DOMAIN ObjectIds
  /\ Serve(Completed("create_context", NoId, context_id,
                     Some([body |-> input, llm_metadata |-> llm_metadata]),
                     IF auto.raised THEN None
                     ELSE Some([id |-> context_id,
                                active_tools |-> auto.active_tools]),
                     auto.raised, auto.calls))
  /\ contexts' = Append(contexts, doc)
  /\ nextOid' = nextOid + 1
  /\ instances' = auto.instances
  /\ UNCHANGED <<tools, now, procs>>

\* an update_context that reconciles the tools on every update, against the
\* content and the metadata the context will have
UpdateContextReqReconcilingAlways(context_id, input, llm_metadata) ==
  LET i == FindContext(contexts, context_id) IN
  IF i = 0
  THEN /\ Serve(Completed("update_context", NoId, context_id,
                          Some([body |-> input, llm_metadata |-> llm_metadata]),
                          None, FALSE, << >>))
       /\ UNCHANGED <<tools, instances, contexts, nextOid, now, procs>>
  ELSE
    LET existing == contexts[i]
        written == IF input.content # None
                   THEN [existing EXCEPT !.content = input.content[1],
                                         !.metadata = llm_metadata]
                   ELSE IF input.metadata # None
                        THEN [existing EXCEPT !.metadata = input.metadata[1]]
                        ELSE existing
        rec == UpdateToolsForContext(tools, instances,
                                     [content |-> written.content,
                                      content_type |-> written.content_type,
                                      metadata |-> written.metadata],
                                     context_id, now)
    IN
    /\ Serve(Completed("update_context", NoId, context_id,
                       Some([body |-> input, llm_metadata |-> llm_metadata]),
                       Some([id |-> context_id,
                             active_tools |->
                               GetActiveTools(rec.instances, context_id)]),
                       FALSE, rec.calls))
    /\ instances' = rec.instances
    /\ contexts' = [contexts EXCEPT ![i] = written]
    /\ UNCHANGED <<tools, nextOid, now, procs>>

\* PUT /contexts/{context_id}: update_context
UpdateContextReq(context_id, input, llm_metadata) ==
  LET i == FindContext(contexts, context_id) IN
  IF i = 0
  THEN /\ Serve(Completed("update_context", NoId, context_id,
                          Some([body |-> input, llm_metadata |-> llm_metadata]),
                          None, FALSE, << >>))
       /\ UNCHANGED <<tools, instances, contexts, nextOid, now, procs>>
  ELSE
    LET existing == contexts[i]
        temp_context == [content |-> input.content[1],
                         content_type |-> existing.content_type,
                         metadata |-> llm_metadata]
        rec == IF input.content # None
               THEN UpdateToolsForContext(tools, instances, temp_context,
                                          context_id, now)
               ELSE [instances |-> instances, calls |-> << >>]
        written == IF input.content # None
                   THEN [existing EXCEPT !.content = input.content[1],
                                         !.metadata = llm_metadata]
                   ELSE IF input.metadata # None
                        THEN [existing EXCEPT !.metadata = input.metadata[1]]
                        ELSE existing
    IN
    /\ Serve(Completed("update_context", NoId, context_id,
                       Some([body |-> input, llm_metadata |-> llm_metadata]),
                       Some([id |-> context_id,
                             active_tools |->
                               GetActiveTools(rec.instances, context_id)]),
                       FALSE, rec.calls))
    /\ instances' = rec.instances
    /\ contexts' = [contexts EXCEPT ![i] = written]
    /\ UNCHANGED <<tools, nextOid, now, procs>>

\* DELETE /contexts/{context_id}: delete_context
DeleteContextReq(context_id) ==
  LET shed == DeactivateAll(GetActiveTools(instances, context_id),
                            [instances |-> instances, calls |-> << >>],
                            context_id, now)
      del == DeleteOne(contexts,
                       {i \in DOMAIN contexts : contexts[i]._id = context_id})
  IN
  /\ Serve(Completed("delete_context", NoId, context_id, None,
                     del.deleted_count > 0, FALSE, shed.calls))
  /\ instances' = shed.instances
  /\ contexts' = del.coll
  /\ UNCHANGED <<tools, nextOid, now, procs>>

\* bodies of PUT /contexts/{context_id}
ContextUpdates ==
  {[content |-> Some(c), metadata |-> None] : c \in Contents}
    \cup {[content |-> None, metadata |-> Some([env |-> "prod"])]}

\* arguments of PATCH /tools/{tool_id}/status/{context_id}
StatusUpdates ==
  {[status |-> s, error_message |-> None] : s \in ToolStatus}
    \cup {[status |-> FAILED, error_message |-> Some("boom")],
          [status |-> FAILED, error_message |-> Some("")]}

\* the context ids a caller can name: those the store has handed out, and
\* any string of its own
CallerContextIds ==
  {ObjectIds[k] : k \in 1..(nextOid - 1)} \cup {ForeignContextId}

\* the configuration_override values of an activation request
ConfigurationOverrides ==
  {None, Some([enabled |-> FALSE, auto_activate |-> FALSE])}

\* the context ids the callers of the tool API name
ToolsContextIds == {ForeignContextId, OtherContextId}

\* GET /tools/active/{context_id}
GetActiveToolsReq(context_id) ==
  /\ Serve(Completed("get_active_tools", NoId, context_id, None,
                     GetActiveTools(instances, context_id), FALSE, << >>))
  /\ UNCHANGED <<tools, instances, contexts, nextOid, now, procs>>

\* the tool API alone; no context is ever created
NextTools ==
  \/ Tick
  \/ \E id \in ToolIdSpace : RegisterToolReq(id, DocTool)
  \/ \E t \in ToolIdSpace, c \in ToolsContextIds,
        o \in ConfigurationOverrides : ActivateToolReq(t, c, o)
  \/ \E t \in ToolIdSpace, c \in ToolsContextIds : DeactivateToolReq(t, c)
  \/ \E t \in ToolIdSpace, c \in ToolsContextIds, u \in StatusUpdates :
       UpdateToolStatusReq(t, c, u.status, u.error_message)
  \/ \E c \in ToolsContextIds : GetActiveToolsReq(c)

SpecTools == Init /\ [][NextTools]_vars

Next ==
  \/ Tick
  \/ \E id \in ToolIdSpace, payload \in ToolPayloads : RegisterToolReq(id, payload)
  \/ \E t \in ToolIdSpace, c \in CallerContextIds : ActivateToolReq(t, c, None)
  \/ \E t \in ToolIdSpace, c \in CallerContextIds : DeactivateToolReq(t, c)
  \/ \E t \in ToolIdSpace, c \in CallerContextIds :
       UpdateToolStatusReq(t, c, FAILED, Some("boom"))
  \/ \E input \in ContextCreates, m \in LLMMetadata : CreateContextReq(input, m)
  \/ \E c \in CallerContextIds, input \in ContextUpdates, m \in LLMMetadata :
       UpdateContextReq(c, input, m)
  \/ \E c \in CallerContextIds : DeleteContextReq(c)

Spec == Init /\ [][Next]_vars

-----------------------------------------------------------------------------
(* The matching predicate on its own: a catalog as registrations left it,  *)
(* and the read-only calls on it                                           *)

\* the catalogs of at most two tools
MatchCatalogs ==
  {<< >>}
    \cup {<<Tool("t1", p)>> : p \in MatchPayloads}
    \cup {<<Tool("t1", p), Tool("t2", q)>> : p \in MatchPayloads,
                                             q \in MatchPayloads}

InitMatch ==
  /\ tools \in MatchCatalogs
  /\ instances = << >>
  /\ contexts = << >>
  /\ nextOid = 1
  /\ now = 0
  /\ served = 0
  /\ last = Completed("startup", NoId, NoId, None, None, FALSE, << >>)
  /\ procs = [p \in Clients |-> Idle]

\* tool_service.discover_tools_for_context(context)
DiscoverToolsReq(context) ==
  /\ Serve(Completed("discover_tools", NoId, NoId, Some(context),
                     DiscoverTools(tools, context), FALSE, << >>))
  /\ UNCHANGED <<tools, instances, contexts, nextOid, now, procs>>

\* mcp_server._tool_matches_context(tool, context) on the i-th catalog tool
ToolMatchesContextReq(i, context) ==
  /\ i \in DOMAIN tools
  /\ Serve(Completed("_tool_matches_context", tools[i].id, NoId, Some(context),
                     IF MatchRaises(tools[i], context) THEN None
                     ELSE Some(ToolMatchesContext(tools[i], context)),
                     MatchRaises(tools[i], context), << >>))
  /\ UNCHANGED <<tools, instances, contexts, nextOid, now, procs>>

NextMatch ==
  \/ \E context \in MatchContexts : DiscoverToolsReq(context)
  \/ \E i \in DOMAIN tools, context \in MatchContexts :
       ToolMatchesContextReq(i, context)

SpecMatch == InitMatch /\ [][NextMatch]_vars

-----------------------------------------------------------------------------
(* Requests that interleave: a handler gives way at every await of a        *)
(* database call, so each action below is one database call together with  *)
(* the code that follows it up to the next one                              *)

InFlight(p) == procs[p].pc \notin {"idle", "done"}

\* the other clients whose request is in flight during a step of p
Others(p) == {q \in Clients \ {p} : InFlight(q)}

\* p starts a request: its first database call is being made
Starts(p) ==
  /\ ~InFlight(p)
  /\ served < MaxConcRequests
  /\ served' = served + 1

\* the other clients whose current request has started, returned or not
Begun(p) == {q \in Clients \ {p} : procs[q].pc # "idle"}

\* procs after the first step of p's request, which leaves it in flight as r;
\* earlier keeps the clients whose current request started before this one
Started(p, r) ==
  [q \in Clients |->
     IF q = p THEN [r EXCEPT !.overlap = Others(p)] @@ [earlier |-> Begun(p)]
     ELSE [procs[q] EXCEPT !.overlap = @ \ {p}, !.earlier = @ \ {p}]]

\* procs after a later step of p's request, which leaves it in flight as r
Continued(p, r) ==
  [procs EXCEPT ![p] = [r EXCEPT !.overlap = procs[p].overlap \cup Others(p)]
                         @@ [earlier |-> procs[p].earlier]]

\* the record of a request of p that has returned
Done(completed, overlap) ==
  [pc |-> "done", overlap |-> overlap, op |-> completed.op,
   tool_id |-> completed.tool_id, context_id |-> completed.context_id,
   ret |-> completed.ret, raised |-> completed.raised,
   calls |-> completed.calls]

\* p's request returns on its first step
ReturnsAtOnce(p, completed) ==
  /\ procs' = Started(p, Done(completed, {}))
  /\ last' = completed

\* p's request returns on a later step
Returns(p, completed) ==
  /\ procs' = Continued(p, Done(completed, procs[p].overlap))
  /\ last' = completed

\* register_tool: one insert_one
CRegisterTool(p, id, payload) ==
  LET r == RegisterToolEndpoint(tools, id, payload) IN
  /\ Starts(p)
  /\ ReturnsAtOnce(p, Completed("register_tool", id, NoId, Some(payload),
                                r.ret, r.raised, << >>))
  /\ tools' = r.tools
  /\ UNCHANGED <<instances, contexts, nextOid, now>>

\* activate_tool, find_one on the catalog
CActivateFind(p, tool_id, context_id) ==
  LET look == ActivateLookup(tools, tool_id, context_id, now) IN
  /\ Starts(p)
  /\ IF look.found
     THEN /\ procs' = Started(p, [pc |-> "act_insert", overlap |-> {},
                                  op |-> "activate_tool", tool_id |-> tool_id,
                                  context_id |-> context_id,
                                  instance |-> look.instance])
          /\ UNCHANGED last
     ELSE ReturnsAtOnce(p, Completed("activate_tool", tool_id, context_id,
                                     None, look.response, FALSE, << >>))
  /\ UNCHANGED <<tools, instances, contexts, nextOid, now>>

\* activate_tool, insert_one on the instances
CActivateInsert(p) ==
  /\ procs[p].pc = "act_insert"
  /\ LET r == ActivateStore(instances, procs[p].tool_id, procs[p].context_id,
                            procs[p].instance) IN
     /\ instances' = r.instances
     /\ Returns(p, Completed("activate_tool", procs[p].tool_id,
                             procs[p].context_id, None, r.response, FALSE,
                             << >>))
  /\ UNCHANGED <<tools, contexts, nextOid, now, served>>

\* deactivate_tool: one update_one
CDeactivateTool(p, tool_id, context_id) ==
  LET r == DeactivateTool(instances, tool_id, context_id, now) IN
  /\ Starts(p)
  /\ ReturnsAtOnce(p, Completed("deactivate_tool", tool_id, context_id, None,
                                r.ret, FALSE, << >>))
  /\ instances' = r.instances
  /\ UNCHANGED <<tools, contexts, nextOid, now>>

\* update_tool_status: one update_one
CUpdateToolStatus(p, tool_id, context_id, status, error_message) ==
  LET r == UpdateToolStatus(instances, tool_id, context_id, status,
                            error_message, now) IN
  /\ Starts(p)
  /\ ReturnsAtOnce(p, Completed("update_tool_status", tool_id, context_id,
                                Some([status |-> status,
                                      error_message |-> error_message]),
                                r.ret, FALSE, << >>))
  /\ instances' = r.instances
  /\ UNCHANGED <<tools, contexts, nextOid, now>>

\* create_context, insert_one on the contexts
CCreateInsert(p, input, llm_metadata) ==
  LET context == [content |-> input.content,
                  content_type |-> input.content_type,
                  metadata |-> DictUpdate(input.metadata, llm_metadata)]
      context_id == ObjectIds[nextOid]
  IN
  /\ Starts(p)
  /\ nextOid \in DOMAIN ObjectIds
  /\ contexts' = Append(contexts,
                        [_id |-> context_id, content |-> context.content,
                         content_type |-> context.content_type,
                         metadata |-> context.metadata])
  /\ nextOid' = nextOid + 1
  /\ procs' = Started(p, [pc |-> "create_discover", overlap |-> {},
                          op |-> "create_context", context_id |-> context_id,
                          input |-> Some([body |-> input,
                                          llm_metadata |-> llm_metadata]),
                          context |-> context])
  /\ UNCHANGED <<tools, instances, now, last>>

\* create_context, the catalog scan of auto_discover_and_activate
CCreateDiscover(p) ==
  /\ procs[p].pc = "create_discover"
  /\ LET auto == AutoDiscoverAndActivate(tools, instances, procs[p].context) IN
     /\ instances' = auto.instances
     /\ Returns(p, Completed("create_context", NoId, procs[p].context_id,
                             procs[p].input,
                             IF auto.raised THEN None
                             ELSE Some([id |-> procs[p].context_id,
                                        active_tools |-> auto.active_tools]),
                             auto.raised, auto.calls))
  /\ UNCHANGED <<tools, contexts, nextOid, now, served>>

\* where a reconciliation goes next, given what is left to shed and to add
RecPc(shed, add) ==
  IF shed # << >> THEN "rec_deact"
  ELSE IF add # << >> THEN "rec_act_find" ELSE "upd_write"

\* update_context, find_one on the contexts (get_context)
CUpdateGet(p, context_id, input, llm_metadata) ==
  LET i == FindContext(contexts, context_id)
      given == Some([body |-> input, llm_metadata |-> llm_metadata])
  IN
  /\ Starts(p)
  /\ IF i = 0
     THEN ReturnsAtOnce(p, Completed("update_context", NoId, context_id, given,
                                     None, FALSE, << >>))
     ELSE /\ procs' =
               Started(p, [pc |-> IF input.content # None THEN "rec_active"
                                  ELSE "upd_write",
                           overlap |-> {}, op |-> "update_context",
                           context_id |-> context_id, input |-> given,
                           context |-> [content |-> input.content[1],
                                        content_type |-> contexts[i].content_type,
                                        metadata |-> llm_metadata],
                           current_tool_ids |-> {}, shed |-> << >>,
                           add |-> << >>, instance |-> None, calls |-> << >>])
          /\ UNCHANGED last
  /\ UNCHANGED <<tools, instances, contexts, nextOid, now>>

\* _update_tools_for_context, get_active_tools
CRecActive(p) ==
  /\ procs[p].pc = "rec_active"
  /\ LET current_tools == GetActiveTools(instances, procs[p].context_id) IN
     procs' = Continued(p, [procs[p] EXCEPT
                              !.pc = "rec_discover",
                              !.current_tool_ids = InstanceToolIds(current_tools),
                              !.shed = current_tools])
  /\ UNCHANGED <<tools, instances, contexts, nextOid, now, served, last>>

\* a discover step that lays out every active tool for deactivation
CRecDiscoverSheddingAll(p) ==
  /\ procs[p].pc = "rec_discover"
  /\ LET discovered_tools == DiscoverTools(tools, procs[p].context)
         shed == procs[p].shed
         add == SelectSeq(discovered_tools,
                          LAMBDA tool :
                            ShouldActivate(tool, procs[p].current_tool_ids))
     IN procs' = Continued(p, [procs[p] EXCEPT !.pc = RecPc(shed, add),
                                               !.shed = shed, !.add = add])
  /\ UNCHANGED <<tools, instances, contexts, nextOid, now, served, last>>

\* _update_tools_for_context, discover_tools; the two loops are laid out
CRecDiscover(p) ==
  /\ procs[p].pc = "rec_discover"
  /\ LET discovered_tools == DiscoverTools(tools, procs[p].context)
         discovered_tool_ids == ToolIds(discovered_tools)
         shed == SelectSeq(procs[p].shed,
                           LAMBDA tool : tool.tool_id \notin discovered_tool_ids)
         add == SelectSeq(discovered_tools,
                          LAMBDA tool :
                            ShouldActivate(tool, procs[p].current_tool_ids))
     IN procs' = Continued(p, [procs[p] EXCEPT !.pc = RecPc(shed, add),
                                               !.shed = shed, !.add = add])
  /\ UNCHANGED <<tools, instances, contexts, nextOid, now, served, last>>

\* _update_tools_for_context, one deactivate_tool of the first loop
CRecDeactivate(p) ==
  /\ procs[p].pc = "rec_deact"
  /\ LET tool == Head(procs[p].shed)
         d == DeactivateTool(instances, tool.tool_id, procs[p].context_id, now)
     IN /\ instances' = d.instances
        /\ procs' = Continued(p, [procs[p] EXCEPT
                                    !.pc = RecPc(Tail(procs[p].shed), procs[p].add),
                                    !.shed = Tail(@),
                                    !.calls = Append(@, Call("deactivate_tool",
                                                             tool.tool_id,
                                                             procs[p].context_id,
                                                             d.ret))])
  /\ UNCHANGED <<tools, contexts, nextOid, now, served, last>>

\* _update_tools_for_context, find_one of one activate_tool of the second loop
CRecActivateFind(p) ==
  /\ procs[p].pc = "rec_act_find"
  /\ LET tool == Head(procs[p].add)
         look == ActivateLookup(tools, tool.id, procs[p].context_id, now)
     IN procs' =
          Continued(p,
            IF look.found
            THEN [procs[p] EXCEPT !.pc = "rec_act_insert",
                                  !.instance = look.instance]
            ELSE [procs[p] EXCEPT
                    !.pc = RecPc(<< >>, Tail(procs[p].add)),
                    !.add = Tail(@),
                    !.calls = Append(@, Call("activate_tool", tool.id,
                                             procs[p].context_id, FALSE))])
  /\ UNCHANGED <<tools, instances, contexts, nextOid, now, served, last>>

\* _update_tools_for_context, insert_one of that activate_tool
CRecActivateInsert(p) ==
  /\ procs[p].pc = "rec_act_insert"
  /\ LET tool == Head(procs[p].add)
         r == ActivateStore(instances, tool.id, procs[p].context_id,
                            procs[p].instance)
     IN /\ instances' = r.instances
        /\ procs' = Continued(p, [procs[p] EXCEPT
                                    !.pc = RecPc(<< >>, Tail(procs[p].add)),
                                    !.add = Tail(@),
                                    !.instance = None,
                                    !.calls = Append(@, Call("activate_tool",
                                                             tool.id,
                                                             procs[p].context_id,
                                                             r.response.success))])
  /\ UNCHANGED <<tools, contexts, nextOid, now, served, last>>

\* update_context, find_one_and_update on the contexts
CUpdateWrite(p) ==
  /\ procs[p].pc = "upd_write"
  /\ LET i == FindContext(contexts, procs[p].context_id)
         body == procs[p].input[1].body
     IN IF i = 0
        THEN /\ Returns(p, Completed("update_context", NoId, procs[p].context_id,
                                     procs[p].input, None, FALSE, procs[p].calls))
             /\ UNCHANGED contexts
        ELSE /\ contexts' =
                  [contexts EXCEPT ![i] =
                     IF body.content # None
                     THEN [@ EXCEPT !.content = body.content[1],
                                    !.metadata = procs[p].input[1].llm_metadata]
                     ELSE IF body.metadata # None
                          THEN [@ EXCEPT !.metadata = body.metadata[1]]
                          ELSE @]
             /\ procs' = Continued(p, [procs[p] EXCEPT !.pc = "upd_read"])
             /\ UNCHANGED last
  /\ UNCHANGED <<tools, instances, nextOid, now, served>>

\* update_context, get_active_tools for the response
CUpdateRead(p) ==
  /\ procs[p].pc = "upd_read"
  /\ Returns(p, Completed("update_context", NoId, procs[p].context_id,
                          procs[p].input,
                          Some([id |-> procs[p].context_id,
                                active_tools |->
                                  GetActiveTools(instances, procs[p].context_id)]),
                          FALSE, procs[p].calls))
  /\ UNCHANGED <<tools, instances, contexts, nextOid, now, served>>

\* delete_context, get_active_tools
CDeleteActive(p, context_id) ==
  LET active_tools == GetActiveTools(instances, context_id) IN
  /\ Starts(p)
  /\ procs' = Started(p, [pc |-> IF active_tools # << >> THEN "del_deact"
                                 ELSE "del_delete",
                          overlap |-> {}, op |-> "delete_context",
                          context_id |-> context_id, shed |-> active_tools,
                          calls |-> << >>])
  /\ UNCHANGED <<tools, instances, contexts, nextOid, now, last>>

\* delete_context, one deactivate_tool of its loop
CDeleteDeactivate(p) ==
  /\ procs[p].pc = "del_deact"
  /\ LET tool == Head(procs[p].shed)
         d == DeactivateTool(instances, tool.tool_id, procs[p].context_id, now)
     IN /\ instances' = d.instances
        /\ procs' = Continued(p, [procs[p] EXCEPT
                                    !.pc = IF Tail(procs[p].shed) # << >>
                                           THEN "del_deact" ELSE "del_delete",
                                    !.shed = Tail(@),
                                    !.calls = Append(@, Call("deactivate_tool",
                                                             tool.tool_id,
                                                             procs[p].context_id,
                                                             d.ret))])
  /\ UNCHANGED <<tools, contexts, nextOid, now, served, last>>

\* delete_context, delete_one on the contexts
CDeleteDelete(p) ==
  /\ procs[p].pc = "del_delete"
  /\ LET del == DeleteOne(contexts,
                          {i \in DOMAIN contexts :
                             contexts[i]._id = procs[p].context_id}) IN
     /\ contexts' = del.coll
     /\ Returns(p, Completed("delete_context", NoId, procs[p].context_id, None,
                             del.deleted_count > 0, FALSE, procs[p].calls))
  /\ UNCHANGED <<tools, instances, nextOid, now, served>>

NextConc ==
  \/ Tick
  \/ \E p \in Clients :
       \/ CRegisterTool(p, "t1", GuideTool)
       \/ \E t \in ToolIdSpace, c \in CallerContextIds : CActivateFind(p, t, c)
       \/ CActivateInsert(p)
       \/ \E t \in ToolIdSpace, c \in CallerContextIds : CDeactivateTool(p, t, c)
       \/ \E t \in ToolIdSpace, c \in CallerContextIds :
            CUpdateToolStatus(p, t, c, FAILED, Some("boom"))
       \/ \E input \in {c \in ContextCreates :
                           c.content_type = "infrastructure"},
               m \in LLMMetadata :
            CCreateInsert(p, input, m)
       \/ CCreateDiscover(p)
       \/ \E c \in CallerContextIds,
               input \in {u \in ContextUpdates : u.content # None},
               m \in LLMMetadata :
            CUpdateGet(p, c, input, m)
       \/ CRecActive(p)
       \/ CRecDiscover(p)
       \/ CRecDeactivate(p)
       \/ CRecActivateFind(p)
       \/ CRecActivateInsert(p)
       \/ CUpdateWrite(p)
       \/ CUpdateRead(p)
       \/ \E c \in CallerContextIds : CDeleteActive(p, c)
       \/ CDeleteDeactivate(p)
       \/ CDeleteDelete(p)

SpecConc == Init /\ [][NextConc]_vars

-----------------------------------------------------------------------------
(* Reading the state *)

ToolKnown(tool_id) == \E i \in DOMAIN tools : tools[i].id = tool_id

\* the stored records of a pair
RecordsOf(coll, tool_id, context_id) ==
  {i \in DOMAIN coll :
     coll[i].tool_id = tool_id /\ coll[i].context_id = context_id}

HasStatus(coll, tool_id, context_id, status) ==
  \E i \in RecordsOf(coll, tool_id, context_id) : coll[i].status = status

\* this step serves a request of the given kind
Served(op) == served' = served + 1 /\ last'.op = op

-----------------------------------------------------------------------------
(* Claims on the tool API, under SpecTools *)

\* C2: activating a tool of the catalog returns success=true and leaves the
\* pair's record ACTIVE, whatever record the pair already has
C2_ActivationIsUpsert ==
  (last.op = "activate_tool" /\ ToolKnown(last.tool_id))
    => /\ last.ret.success
       /\ HasStatus(instances, last.tool_id, last.context_id, ACTIVE)

\* C7: on an ACTIVE pair the first deactivate returns true, moves the record
\* to INACTIVE and stamps deactivated_at; a second deactivate of the pair
\* right after it returns false and leaves every record as the first left it
C7_DeactivateIdempotent ==
  [][/\ (/\ Served("deactivate_tool")
         /\ HasStatus(instances, last'.tool_id, last'.context_id, ACTIVE))
        => /\ last'.ret = TRUE
           /\ \A i \in RecordsOf(instances, last'.tool_id, last'.context_id) :
                instances'[i] = [instances[i] EXCEPT
                                   !.status = INACTIVE,
                                   !.deactivated_at = Some(now)]
     /\ (/\ Served("deactivate_tool")
         /\ last.op = "deactivate_tool" /\ last.ret = TRUE
         /\ last'.tool_id = last.tool_id /\ last'.context_id = last.context_id)
        => /\ last'.ret = FALSE
           /\ instances' = instances]_vars

\* a second deactivate has returned false, later than the first stamped the
\* record
C7_Witness ==
  /\ last.op = "deactivate_tool" /\ last.ret = FALSE
  /\ \E i \in RecordsOf(instances, last.tool_id, last.context_id) :
       /\ instances[i].status = INACTIVE
       /\ instances[i].updated_at = None
       /\ instances[i].deactivated_at = Some(0)
  /\ now = 1

\* C8: a deactivate of a pair that has no ACTIVE record returns false and
\* changes no record, so get_active_tools answers as before for every context
C8_DeactivateOnlyActive ==
  [][(/\ Served("deactivate_tool")
      /\ ~HasStatus(instances, last'.tool_id, last'.context_id, ACTIVE))
       => /\ last'.ret = FALSE
          /\ instances' = instances
          /\ \A c \in CtxIdSpace :
               GetActiveTools(instances', c) = GetActiveTools(instances, c)]_vars

\* a deactivate has returned false on a pair whose record is FAILED
C8_Witness ==
  /\ last.op = "deactivate_tool" /\ last.ret = FALSE
  /\ HasStatus(instances, last.tool_id, last.context_id, FAILED)

\* C9: activating an id that is not in the catalog answers success=false,
\* "Tool not found" and a FAILED instance, raises nothing and stores nothing
C9_UnknownToolSignalled ==
  [][(Served("activate_tool") /\ ~ToolKnown(last'.tool_id))
       => /\ ~last'.raised
          /\ last'.ret.success = FALSE
          /\ last'.ret.message = "Tool not found"
          /\ last'.ret.instance.status = FAILED
          /\ instances' = instances
          /\ RecordsOf(instances', last'.tool_id, last'.context_id) = {}]_vars

\* an activation of an unknown id has been answered, with the catalog not empty
C9_Witness ==
  /\ last.op = "activate_tool" /\ ~ToolKnown(last.tool_id)
  /\ last.ret.success = FALSE
  /\ tools # << >>

-----------------------------------------------------------------------------
(* Claims on reconciliation and context creation, under Spec *)

\* ids of the tools ACTIVE for a context
ActiveIds(coll, context_id) ==
  {coll[i].tool_id : i \in {j \in DOMAIN coll :
                              /\ coll[j].context_id = context_id
                              /\ coll[j].status = ACTIVE}}

\* M: ids of the catalog's tools that match a context
MatchingIds(context) ==
  {tools[i].id : i \in {j \in DOMAIN tools : ToolMatchesContext(tools[j], context)}}

\* D: ids of the matching tools whose auto_activate is true
AutoMatchingIds(context) ==
  {tools[i].id : i \in {j \in DOMAIN tools :
                          /\ ToolMatchesContext(tools[j], context)
                          /\ tools[j].configuration.auto_activate}}

AutoToolIds == {tools[i].id : i \in {j \in DOMAIN tools :
                                       tools[j].configuration.auto_activate}}

\* a completed update_context that carried new content, so that it reconciled
Reconciled(completed) ==
  /\ completed.op = "update_context"
  /\ completed.ret # None
  /\ completed.input[1].body.content # None

\* the context a completed update_context reconciled against
ReconciledContext(completed) ==
  [content |-> completed.input[1].body.content[1],
   content_type |-> contexts[FindContext(contexts, completed.context_id)].content_type,
   metadata |-> completed.input[1].llm_metadata]

\* ids of the tools a sequence of calls names with the given function
CalledWith(calls, fn) ==
  {calls[i].tool_id : i \in {j \in DOMAIN calls : calls[j].fn = fn}}

\* this step is a reconciling update_context
ReconcileStep == served' = served + 1 /\ Reconciled(last')

\* C4: after a completed content-change reconciliation the auto-activating
\* tools ACTIVE for the context are exactly those of D, whatever record a
\* tool of D had before (the tools without auto_activate are C5's matter)
C4_ReconcileReachesD ==
  Reconciled(last)
    => ActiveIds(instances, last.context_id) \cap AutoToolIds
         = AutoMatchingIds(ReconciledContext(last))

C6_KeptToolsUntouched ==
  [][ReconcileStep
       => LET c == last'.context_id IN
          \A t \in ActiveIds(instances, c)
                     \cap AutoMatchingIds(ReconciledContext(last')) :
            /\ \A k \in DOMAIN last'.calls : last'.calls[k].tool_id # t
            /\ \A i \in RecordsOf(instances, t, c) : instances'[i] = instances[i]
            /\ RecordsOf(instances', t, c) = RecordsOf(instances, t, c)]_vars

\* a reconciliation has completed with a tool of D ACTIVE that it did not
\* call for: the tool was ACTIVE before it
C6_Witness ==
  /\ Reconciled(last)
  /\ \E t \in AutoMatchingIds(ReconciledContext(last)) :
       /\ HasStatus(instances, t, last.context_id, ACTIVE)
       /\ \A k \in DOMAIN last.calls : last.calls[k].tool_id # t

\* the context a completed create_context stored
CreatedContext(completed) ==
  contexts[FindContext(contexts, completed.context_id)]

\* C10: create_context completes with every matching auto_activate tool
\* ACTIVE for the created context's id and returned with the context
C10_CreateAutoActivates ==
  last.op = "create_context"
    => /\ ~last.raised
       /\ \A t \in AutoMatchingIds(CreatedContext(last)) :
            /\ HasStatus(instances, t, last.context_id, ACTIVE)
            /\ t \in InstanceToolIds(last.ret[1].active_tools)

-----------------------------------------------------------------------------
(* Claims on interleaved requests, under SpecConc *)

\* two clients whose completed requests ran at the same time
Concurrent(p, q) ==
  /\ procs[p].pc = "done" /\ procs[q].pc = "done"
  /\ (q \in procs[p].overlap \/ p \in procs[q].overlap)

\* p and q have completed concurrent activate_tool requests for one pair, and
\* both found the tool in the catalog
ConcurrentActivations(p, q) ==
  /\ p # q
  /\ Concurrent(p, q)
  /\ procs[p].op = "activate_tool" /\ procs[q].op = "activate_tool"
  /\ procs[p].tool_id = procs[q].tool_id
  /\ procs[p].context_id = procs[q].context_id
  /\ procs[p].ret.message # "Tool not found"
  /\ procs[q].ret.message # "Tool not found"

\* C1: at every moment, whatever the interleaving of activations,
\* deactivations, status updates, context creations, reconciliations and
\* deletions, a (tool_id, context_id) pair has at most one stored record
C1_OneRecordPerPair ==
  \A i, j \in DOMAIN instances :
    (/\ instances[i].tool_id = instances[j].tool_id
     /\ instances[i].context_id = instances[j].context_id) => i = j

\* two concurrent activations of one pair have completed, the insert of one
\* of them was refused, and the pair has its one record
C1_Witness ==
  \E p, q \in Clients :
    /\ ConcurrentActivations(p, q)
    /\ procs[p].ret.success /\ ~procs[q].ret.success
    /\ procs[q].ret.instance.error_message = Some(DuplicateKeyError)
    /\ Cardinality(RecordsOf(instances, procs[p].tool_id,
                             procs[p].context_id)) = 1

\* C3: two concurrent activations of one pair, for a tool of the catalog, both
\* return success=true, and exactly one ACTIVE record of the pair exists when
\* both have completed
C3_ConcurrentActivationsSucceed ==
  \A p, q \in Clients :
    ConcurrentActivations(p, q)
      => /\ procs[p].ret.success
         /\ procs[q].ret.success
         /\ Cardinality({i \in RecordsOf(instances, procs[p].tool_id,
                                         procs[p].context_id) :
                           instances[i].status = ACTIVE}) = 1

-----------------------------------------------------------------------------
(* Claims on the auto-activation policy, under Spec *)

\* ids of the catalog's tools whose auto_activate is false
ManualToolIds == {tools[i].id : i \in DOMAIN tools} \ AutoToolIds

\* this step serves a create_context, or an update_context that reconciled
CoordinatorStep ==
  /\ served' = served + 1
  /\ (last'.op = "create_context" \/ Reconciled(last'))

\* the context the coordinator discovered tools for in a completed request
CoordinatedContext(completed) ==
  IF completed.op = "create_context"
  THEN [content |-> completed.input[1].body.content,
        content_type |-> completed.input[1].body.content_type,
        metadata |-> DictUpdate(completed.input[1].body.metadata,
                                completed.input[1].llm_metadata)]
  ELSE ReconciledContext(completed)

\* C11: context creation and reconciliation issue no activate call for a
\* tool whose auto_activate is false and create no record for it, discovery
\* still returns such a tool when it matches, and an explicit activate of
\* such a tool returns success=true and leaves the pair ACTIVE
C11_ManualToolsStayManual ==
  [][/\ CoordinatorStep
          => /\ \A k \in DOMAIN last'.calls :
                  last'.calls[k].fn = "activate_tool"
                    => last'.calls[k].tool_id \notin ManualToolIds
             /\ \A t \in ManualToolIds :
                  RecordsOf(instances', t, last'.context_id)
                    = RecordsOf(instances, t, last'.context_id)
             /\ \A i \in DOMAIN tools :
                  (/\ ~AutoActivate(tools[i])
                   /\ ToolMatchesContext(tools[i], CoordinatedContext(last')))
                    => tools[i].id
                         \in ToolIds(DiscoverTools(tools, CoordinatedContext(last')))
     /\ (Served("activate_tool") /\ last'.tool_id \in ManualToolIds)
          => /\ last'.ret.success
             /\ last'.ret.instance.status = ACTIVE
             /\ HasStatus(instances', last'.tool_id, last'.context_id, ACTIVE)]_vars

-----------------------------------------------------------------------------
(* Claims on matching, under SpecMatch *)

\* the three families of the matching predicate, as the contract words them
CapabilityFamily(tool, context) ==
  context.content_type \in Range(tool.capabilities)

PatternOccurs(pattern, content) ==
  /\ ~ReError(pattern)
  /\ \E a \in 0..(Len(content) - Len(pattern)) :
       LET piece == SubSeq(content, a + 1, a + Len(pattern)) IN
       \A i \in DOMAIN pattern :
         pattern[i] = "." \/ ToLower(piece[i]) = ToLower(pattern[i])

PatternFamily(tool, context) ==
  \E p \in Range(tool.context_patterns) : PatternOccurs(p, context.content)

RuleFamily(tool, context) ==
  \E k \in DOMAIN tool.activation_rules \cap DOMAIN context.metadata :
    context.metadata[k] = tool.activation_rules[k]

\* the catalog tool with the given id
ToolById(tool_id) ==
  tools[FirstMatch({i \in DOMAIN tools : tools[i].id = tool_id})]

\* C12: discover returns exactly the catalog's tools for which the
\* capability, the pattern or the rule family holds for the context
C12_DiscoverIsUnionOfFamilies ==
  last.op = "discover_tools"
    => ToolIds(last.ret)
         = {tools[i].id : i \in {j \in DOMAIN tools :
                                   \/ CapabilityFamily(tools[j], last.input[1])
                                   \/ PatternFamily(tools[j], last.input[1])
                                   \/ RuleFamily(tools[j], last.input[1])}}

\* C13: when neither a capability nor a pattern matches, the predicate
\* returns true exactly when some activation rule (key, value) has
\* metadata[key] = value; a rule whose key is absent or whose value differs
\* does not keep a later rule from matching
C13_RuleMatchIsAnyOf ==
  (/\ last.op = "_tool_matches_context"
   /\ ~MatchRaises(ToolById(last.tool_id), last.input[1])
   /\ ~CapabilityFamily(ToolById(last.tool_id), last.input[1])
   /\ ~PatternFamily(ToolById(last.tool_id), last.input[1]))
    => /\ ~last.raised
       /\ last.ret = Some(RuleFamily(ToolById(last.tool_id), last.input[1]))

\* a tool with the rules env=prod and team=docs has matched a context whose
\* metadata has no env and has team=docs
C13_Witness ==
  /\ last.op = "_tool_matches_context"
  /\ DOMAIN ToolById(last.tool_id).activation_rules = {"env", "team"}
  /\ ~CapabilityFamily(ToolById(last.tool_id), last.input[1])
  /\ ToolById(last.tool_id).context_patterns = << >>
  /\ DOMAIN last.input[1].metadata = {"team"}
  /\ last.ret = Some(TRUE)

-----------------------------------------------------------------------------
(* Claims on reading and writing instance records, under SpecTools *)

\* the stored records of a context that are ACTIVE
ActiveRecords(coll, context_id) ==
  {i \in DOMAIN coll :
     coll[i].context_id = context_id /\ coll[i].status = ACTIVE}

\* C14: get_active_tools(context_id) returns the stored instances of that
\* context whose status is ACTIVE, each once, and nothing else
C14_ActiveListIsExact ==
  last.op = "get_active_tools"
    => /\ \A k \in DOMAIN last.ret :
            /\ last.ret[k].context_id = last.context_id
            /\ last.ret[k].status = ACTIVE
            /\ \E i \in ActiveRecords(instances, last.context_id) :
                 AsToolInstance(instances[i]) = last.ret[k]
       /\ \A i \in ActiveRecords(instances, last.context_id) :
            \E k \in DOMAIN last.ret : last.ret[k] = AsToolInstance(instances[i])
       /\ Len(last.ret) = Cardinality(ActiveRecords(instances, last.context_id))

\* a listing has returned an instance while the store also holds an ACTIVE
\* record of another context
C14_Witness ==
  /\ last.op = "get_active_tools"
  /\ last.ret # << >>
  /\ \E i \in DOMAIN instances :
       /\ instances[i].context_id # last.context_id
       /\ instances[i].status = ACTIVE

\* C15: after an activate of a catalog tool has returned, the pair has a
\* stored record with an activation timestamp, no error message and no
\* deactivation timestamp, whatever record the pair had before
C15_ActivationClearsStaleFields ==
  (last.op = "activate_tool" /\ ToolKnown(last.tool_id))
    => /\ RecordsOf(instances, last.tool_id, last.context_id) # {}
       /\ \A i \in RecordsOf(instances, last.tool_id, last.context_id) :
            /\ instances[i].activated_at # None
            /\ instances[i].error_message = None
            /\ instances[i].deactivated_at = None

\* the configuration a stored record or a returned instance carries
RecordedConfiguration(doc) ==
  IF "configuration" \in DOMAIN doc THEN Some(doc.configuration) ELSE None

\* C16: a successful activate records the effective configuration, the
\* override when one is supplied and the tool's default otherwise, on the
\* stored record and on the returned instance
C16_EffectiveConfigurationRecorded ==
  (last.op = "activate_tool" /\ last.ret.success)
    => LET config == EffectiveConfiguration(last.input, ToolById(last.tool_id))
       IN /\ RecordedConfiguration(last.ret.instance) = Some(config)
          /\ \A i \in RecordsOf(instances, last.tool_id, last.context_id) :
               RecordedConfiguration(instances[i]) = Some(config)

\* this step serves an update_tool_status for a pair that has a record
StatusStep ==
  /\ Served("update_tool_status")
  /\ RecordsOf(instances, last'.tool_id, last'.context_id) # {}

-----------------------------------------------------------------------------
(* Claims on deletion and on what the stores keep *)

\* since p's request started no client has issued an activate call: every
\* other client is idle or in a request that began before p's and is not an
\* update_context, whose reconciliation issues its activations on the way
NoActivationIssuedSince(p) ==
  \A q \in Clients \ {p} :
    \/ procs[q].pc = "idle"
    \/ (p \notin procs[q].earlier /\ procs[q].op # "update_context")

\* C18: once delete_context(c) has deleted the context and no activation for
\* c was issued after it started, no record of c is ACTIVE, and every instance the
\* deletion found ACTIVE is INACTIVE with a deactivation timestamp
C18_DeletionDeactivatesAll ==
  \A p \in Clients :
    (/\ procs[p].pc = "done"
     /\ procs[p].op = "delete_context"
     /\ procs[p].ret = TRUE
     /\ NoActivationIssuedSince(p))
      => /\ GetActiveTools(instances, procs[p].context_id) = << >>
         /\ \A k \in DOMAIN procs[p].calls :
              \A i \in RecordsOf(instances, procs[p].calls[k].tool_id,
                                 procs[p].context_id) :
                /\ instances[i].status = INACTIVE
                /\ instances[i].deactivated_at # None

\* the (tool_id, context_id) pairs that have a stored record
StoredPairs(coll) ==
  {<<coll[i].tool_id, coll[i].context_id>> : i \in DOMAIN coll}

\* C19: no step of an activate, deactivate, update_status, reconciliation or
\* context deletion takes a pair's record away: the set of pairs that have a
\* stored record never shrinks
C19_RecordsNeverDeleted ==
  [][StoredPairs(instances) \subseteq StoredPairs(instances')]_vars

\* a delete_context has deleted its context after deactivating a tool, and
\* the record of that tool for the context is still stored
C19_Witness ==
  \E p \in Clients :
    /\ procs[p].pc = "done"
    /\ procs[p].op = "delete_context"
    /\ procs[p].ret = TRUE
    /\ \E k \in DOMAIN procs[p].calls :
         /\ procs[p].calls[k].ok
         /\ <<procs[p].calls[k].tool_id, procs[p].context_id>>
              \in StoredPairs(instances)

\* C20: a successful register appends one tool, as registered, whose id is
\* the id of no tool already in the catalog, and no step removes a tool or
\* changes a stored definition
C20_CatalogAppendOnly ==
  [][/\ Len(tools') >= Len(tools)
     /\ SubSeq(tools', 1, Len(tools)) = tools
     /\ (Served("register_tool") /\ ~last'.raised)
          => /\ tools' = Append(tools, last'.ret[1])
             /\ \A i \in DOMAIN tools : tools[i].id # last'.ret[1].id
     /\ ~(Served("register_tool") /\ ~last'.raised) => tools' = tools]_vars

\* the same payload has been registered twice and the catalog holds it under
\* two ids
C20_Witness ==
  /\ last.op = "register_tool" /\ ~last.raised
  /\ Len(tools) = 2
  /\ tools[1].id # tools[2].id
  /\ [tools[1] EXCEPT !.id = tools[2].id] = tools[2]

-----------------------------------------------------------------------------
(* Registration payloads, valid and not, under SpecCatalog *)

\* the payload of test_employment_contract_workflow: complete metadata,
\* capabilities that are not values of ToolCapability, auto_activate and a
\* pattern
ContractTool ==
  [metadata |-> FullMetadata,
   capabilities |-> <<"contract_generation", "legal_compliance">>,
   configuration |-> [enabled |-> TRUE, auto_activate |-> TRUE],
   context_patterns |-> << <<"g", "u", "i", "d", "e">> >>,
   activation_rules |-> [content_type |-> "ai_tools"]]

\* a payload whose metadata lacks a required field
UndescribedTool ==
  [metadata |-> [name |-> "tool", version |-> "1.0.0"],
   capabilities |-> <<"testing">>,
   configuration |-> [enabled |-> TRUE, auto_activate |-> TRUE],
   context_patterns |-> << <<"g", "u", "i", "d", "e">> >>,
   activation_rules |-> EmptyMap]

\* the bodies of POST /tools/register
CatalogPayloads == {GuideTool, ManualTool, ContractTool, UndescribedTool}

\* registrations, context creations and reads of the active tools
NextCatalog ==
  \/ \E id \in ToolIdSpace, payload \in CatalogPayloads :
       RegisterToolReq(id, payload)
  \/ \E input \in ContextCreates, m \in LLMMetadata : CreateContextReq(input, m)
  \/ \E c \in CallerContextIds : GetActiveToolsReq(c)

SpecCatalog == Init /\ [][NextCatalog]_vars

\* C21: a registration whose metadata lacks one of name, version and
\* description fails, and the catalog is what it was before the call
C21_IncompleteMetadataRejected ==
  [][(/\ Served("register_tool")
      /\ ~({"name", "version", "description"}
             \subseteq DOMAIN last'.input[1].metadata))
       => /\ last'.raised
          /\ last'.ret = None
          /\ tools' = tools]_vars

\* a payload with a name and a version but no description has been turned
\* down while the catalog already held a tool
C21_Witness ==
  /\ last.op = "register_tool"
  /\ last.input = Some(UndescribedTool)
  /\ last.raised
  /\ Len(tools) = 1

\* C24: a registration with complete metadata and an unused id is stored
\* whatever its capability strings are, and a context created afterwards
\* whose content matches a pattern of a stored auto-activating tool has that
\* tool ACTIVE
C24_AnyCapabilityAccepted ==
  [][/\ (/\ Served("register_tool")
         /\ {"name", "version", "description"}
              \subseteq DOMAIN last'.input[1].metadata
         /\ ~ToolKnown(last'.tool_id))
          => /\ ~last'.raised
             /\ \E i \in DOMAIN tools' : tools'[i].id = last'.tool_id
     /\ Served("create_context")
          => \A i \in DOMAIN tools :
               (/\ AutoActivate(tools[i])
                /\ PatternFamily(tools[i],
                              [content |-> last'.input[1].body.content]))
                 => HasStatus(instances', tools[i].id, last'.context_id,
                              ACTIVE)]_vars

-----------------------------------------------------------------------------
(* The tool API when the collections cannot be reached, under SpecFaults *)

\* the input of a request during which every call on a collection raises
Unavailable == Some([storage |-> "down"])

\* a register_tool that answers nothing and does not raise when insert_one
\* fails
RegisterToolDownQuiet(id, payload) ==
  /\ ValidToolMetadata(payload.metadata)
  /\ ValidCapabilities(payload.capabilities)
  /\ Serve(Completed("register_tool", id, NoId, Unavailable, None, FALSE,
                     << >>))
  /\ UNCHANGED <<tools, instances, contexts, nextOid, now, procs>>

\* register_tool, insert_one raising: mcp_server.register_tool catches and
\* returns False, and ToolService.register_tool raises "Failed to register
\* tool"
RegisterToolDown(id, payload) ==
  /\ ValidToolMetadata(payload.metadata)
  /\ ValidCapabilities(payload.capabilities)
  /\ Serve(Completed("register_tool", id, NoId, Unavailable, None, TRUE,
                     << >>))
  /\ UNCHANGED <<tools, instances, contexts, nextOid, now, procs>>

\* activate_tool, find_one or insert_one raising: the except branch answers
\* a FAILED instance with success False
ActivateToolDown(tool_id, context_id) ==
  /\ Serve(Completed("activate_tool", tool_id, context_id, Unavailable,
                     ActivationFailure(tool_id, context_id,
                                       "ServerSelectionTimeoutError",
                                       "Error activating tool"),
                     FALSE, << >>))
  /\ UNCHANGED <<tools, instances, contexts, nextOid, now, procs>>

\* deactivate_tool, update_one raising: the except branch returns False
DeactivateToolDown(tool_id, context_id) ==
  /\ Serve(Completed("deactivate_tool", tool_id, context_id, Unavailable,
                     FALSE, FALSE, << >>))
  /\ UNCHANGED <<tools, instances, contexts, nextOid, now, procs>>

\* update_tool_status, update_one raising: the except branch returns False
UpdateToolStatusDown(tool_id, context_id) ==
  /\ Serve(Completed("update_tool_status", tool_id, context_id, Unavailable,
                     FALSE, FALSE, << >>))
  /\ UNCHANGED <<tools, instances, contexts, nextOid, now, procs>>

\* get_active_tools, find raising: the except branch returns []
GetActiveToolsDown(context_id) ==
  /\ Serve(Completed("get_active_tools", NoId, context_id, Unavailable,
                     << >>, FALSE, << >>))
  /\ UNCHANGED <<tools, instances, contexts, nextOid, now, procs>>

\* the tool API for one context, every request with the storage reachable or
\* not
NextFaults ==
  \/ \E id \in ToolIdSpace : RegisterToolReq(id, DocTool)
  \/ \E id \in ToolIdSpace : RegisterToolDown(id, DocTool)
  \/ \E t \in ToolIdSpace : ActivateToolReq(t, ForeignContextId, None)
  \/ \E t \in ToolIdSpace : ActivateToolDown(t, ForeignContextId)
  \/ \E t \in ToolIdSpace : DeactivateToolReq(t, ForeignContextId)
  \/ \E t \in ToolIdSpace : DeactivateToolDown(t, ForeignContextId)
  \/ \E t \in ToolIdSpace :
       UpdateToolStatusReq(t, ForeignContextId, FAILED, Some("boom"))
  \/ \E t \in ToolIdSpace : UpdateToolStatusDown(t, ForeignContextId)
  \/ GetActiveToolsReq(ForeignContextId)
  \/ GetActiveToolsDown(ForeignContextId)

SpecFaults == Init /\ [][NextFaults]_vars

\* C22 as claimed: when the storage fails during register, activate,
\* deactivate, update_status or get_active_tools, nothing is raised to the
\* caller and the failure is reported as a value: false, or success = false
C22_FailureReportedAsValue ==
  [][(served' = served + 1 /\ last'.input = Unavailable)
       => /\ ~last'.raised
          /\ last'.op = "activate_tool" => last'.ret.success = FALSE
          /\ last'.op \in {"deactivate_tool", "update_tool_status"}
               => last'.ret = FALSE]_vars

\* C22 as the code has it: a storage failure changes no collection;
\* activate answers success = false with a FAILED instance, deactivate and
\* update_status answer false, get_active_tools answers the empty list, all
\* three without raising, and register raises
C22_StorageFailureOutcomes ==
  [][(served' = served + 1 /\ last'.input = Unavailable)
       => /\ tools' = tools /\ instances' = instances
          /\ last'.op = "activate_tool"
               => /\ ~last'.raised
                  /\ last'.ret.success = FALSE
                  /\ last'.ret.instance.status = FAILED
          /\ last'.op \in {"deactivate_tool", "update_tool_status"}
               => ~last'.raised /\ last'.ret = FALSE
          /\ last'.op = "get_active_tools"
               => ~last'.raised /\ last'.ret = << >>
          /\ last'.op = "register_tool"
               => last'.raised /\ last'.ret = None]_vars

\* a registration has failed on the storage while the catalog held a tool
\* and the instance collection an ACTIVE record
C22_Witness ==
  /\ last.op = "register_tool"
  /\ last.input = Unavailable
  /\ last.raised
  /\ Len(tools) = 1
  /\ \E i \in DOMAIN instances : instances[i].status = ACTIVE

\* C23: a deactivation of a pair with no ACTIVE record returns false without
\* raising, and a deactivation that fails on the storage reports an outcome
\* that differs from that one
C23_NoOpDistinctFromFailure ==
  [][/\ (/\ Served("deactivate_tool")
         /\ last'.input = None
         /\ ~HasStatus(instances, last'.tool_id, last'.context_id, ACTIVE))
          => last'.ret = FALSE /\ ~last'.raised
     /\ (Served("deactivate_tool") /\ last'.input = Unavailable)
          => <<last'.ret, last'.raised>>
               # <<DeactivateTool(<< >>, last'.tool_id, last'.context_id,
                                  now).ret, FALSE>>]_vars

-----------------------------------------------------------------------------
(* Discovery next to other requests, under SpecDiscover *)

\* the contexts discovery is asked about
DiscoverContexts ==
  [content : Contents, content_type : {"documentation", "infrastructure"},
   metadata : {EmptyMap}]

\* discover_tools, the find({}) on the catalog and its to_list
CDiscoverFind(p, context) ==
  /\ Starts(p)
  /\ procs' = Started(p, [pc |-> "disc_match", overlap |-> {},
                          op |-> "discover_tools", tool_id |-> NoId,
                          context_id |-> NoId, context |-> context,
                          all_tools |-> tools])
  /\ UNCHANGED <<tools, instances, contexts, nextOid, now, last>>

\* a matching loop that leaves out the tools with an ACTIVE instance
CDiscoverMatchSkippingActive(p) ==
  /\ procs[p].pc = "disc_match"
  /\ Returns(p, Completed("discover_tools", NoId, NoId,
                          Some(procs[p].context),
                          SelectSeq(DiscoverTools(procs[p].all_tools,
                                                  procs[p].context),
                                    LAMBDA tool :
                                      \A i \in DOMAIN instances :
                                        \/ instances[i].tool_id # tool.id
                                        \/ instances[i].status # ACTIVE),
                          FALSE, << >>))
  /\ UNCHANGED <<tools, instances, contexts, nextOid, now, served>>

\* discover_tools, the matching loop over the tools read and the return
CDiscoverMatch(p) ==
  /\ procs[p].pc = "disc_match"
  /\ Returns(p, Completed("discover_tools", NoId, NoId,
                          Some(procs[p].context),
                          DiscoverTools(procs[p].all_tools, procs[p].context),
                          FALSE, << >>))
  /\ UNCHANGED <<tools, instances, contexts, nextOid, now, served>>

\* two clients registering, activating and discovering
NextDiscover ==
  \E p \in Clients :
    \/ CRegisterTool(p, "t1", GuideTool)
    \/ CRegisterTool(p, "t2", DocTool)
    \/ \E t \in ToolIdSpace : CActivateFind(p, t, ForeignContextId)
    \/ CActivateInsert(p)
    \/ \E context \in DiscoverContexts : CDiscoverFind(p, context)
    \/ CDiscoverMatch(p)

SpecDiscover == Init /\ [][NextDiscover]_vars

\* C25: no step of a discovery changes the catalog or an instance record,
\* and a discovery returns the tools of the catalog it read that match its
\* context by capability, pattern or rule, whatever other discoveries and
\* activations run alongside it
C25_DiscoveryReadOnly ==
  [][\A p \in Clients :
       /\ (procs'[p].pc = "disc_match" /\ procs[p].pc # "disc_match")
            => /\ tools' = tools /\ instances' = instances
               /\ procs'[p].all_tools = tools
       /\ (procs[p].pc = "disc_match" /\ procs'[p].pc # "disc_match")
            => /\ tools' = tools /\ instances' = instances
               /\ procs'[p].ret
                    = SelectSeq(procs[p].all_tools,
                                LAMBDA tool :
                                  \/ CapabilityFamily(tool, procs[p].context)
                                  \/ PatternFamily(tool, procs[p].context)
                                  \/ RuleFamily(tool, procs[p].context))]_vars

\* two discoveries that ran alongside each other have returned, one a tool
\* that is ACTIVE for a context and the other nothing
C25_Witness ==
  \E p \in Clients, q \in Clients :
    /\ p # q
    /\ procs[p].pc = "done" /\ procs[p].op = "discover_tools"
    /\ procs[q].pc = "done" /\ procs[q].op = "discover_tools"
    /\ q \in procs[p].overlap
    /\ procs[q].ret = << >>
    /\ procs[p].ret # << >>
    /\ HasStatus(instances, procs[p].ret[1].id, ForeignContextId, ACTIVE)

-----------------------------------------------------------------------------
(* The order of the steps of update_context, under SpecConc *)

\* C26: while an update_context is at a step of its reconciliation the
\* context store already holds the content of that update, and an update
\* that returns without having written its content has made no deactivate
\* or activate call
C26_ReconcileAfterContentWrite ==
  /\ \A p \in Clients :
       (/\ InFlight(p)
        /\ procs[p].op = "update_context"
        /\ procs[p].pc \in {"rec_active", "rec_discover", "rec_deact",
                            "rec_act_find", "rec_act_insert"})
         => LET i == FindContext(contexts, procs[p].context_id) IN
            /\ i # 0
            /\ contexts[i].content = procs[p].context.content
  /\ (last.op = "update_context" /\ last.ret = None) => last.calls = << >>

-----------------------------------------------------------------------------
(* The order of the calls of one reconciliation, under Spec *)

\* C27: among the calls a reconciliation has issued, no activate call comes
\* before a deactivate call
C27_DeactivationsBeforeActivations ==
  Reconciled(last)
    => \A i \in DOMAIN last.calls, j \in DOMAIN last.calls :
         (last.calls[i].fn = "activate_tool"
            /\ last.calls[j].fn = "deactivate_tool") => j < i

\* a reconciliation has issued a deactivate call and an activate call, and
\* both did what they were called for
C27_Witness ==
  /\ Reconciled(last)
  /\ \E i \in DOMAIN last.calls, j \in DOMAIN last.calls :
       /\ last.calls[j].fn = "deactivate_tool" /\ last.calls[j].ok
       /\ last.calls[i].fn = "activate_tool" /\ last.calls[i].ok
       /\ HasStatus(instances, last.calls[j].tool_id, last.context_id, INACTIVE)
       /\ HasStatus(instances, last.calls[i].tool_id, last.context_id, ACTIVE)

-----------------------------------------------------------------------------
(* Two edits of one context at a time, under SpecRecon *)

\* the stores after a tool with a pattern was registered and a context
\* created whose content matches the pattern: the tool has no instance for
\* it yet or, after an edit of the content, an ACTIVE one
InitRecon ==
  /\ tools = <<Tool("t1", GuideTool)>>
  /\ contexts = <<[_id |-> ObjectIds[1], content |-> GuideText,
                   content_type |-> "infrastructure",
                   metadata |-> [type |-> "documentation"]]>>
  /\ instances \in {<< >>,
                    <<InstanceDoc(ToolInstance("t1", ObjectIds[1], ACTIVE,
                                               Some(0), None))>>}
  /\ nextOid = 2
  /\ now = 0
  /\ served = 0
  /\ last = Completed("startup", NoId, NoId, None, None, FALSE, << >>)
  /\ procs = [p \in Clients |-> Idle]

\* two clients editing the content of the context
NextRecon ==
  \E p \in Clients :
    \/ \E input \in {u \in ContextUpdates : u.content # None},
            m \in LLMMetadata :
         CUpdateGet(p, ObjectIds[1], input, m)
    \/ CRecActive(p)
    \/ CRecDiscover(p)
    \/ CRecDeactivate(p)
    \/ CRecActivateFind(p)
    \/ CRecActivateInsert(p)
    \/ CUpdateWrite(p)
    \/ CUpdateRead(p)

SpecRecon == InitRecon /\ [][NextRecon]_vars

\* C28: when reconciliations of one context overlap, each deactivates only
\* tools of the active set it read and activates only tools outside it, and
\* after each deactivate or activate call it applies the record of the pair
\* has the status of that call: INACTIVE after a deactivate, ACTIVE after an
\* activate
C28_LastAppliedCallWins ==
  [][\A p \in Clients :
       (/\ procs[p].pc \in {"rec_deact", "rec_act_insert"}
        /\ procs'[p].pc # "done"
        /\ Len(procs'[p].calls) = Len(procs[p].calls) + 1
        /\ \E q \in procs'[p].overlap :
             /\ procs[q].pc # "idle"
             /\ procs[q].op = "update_context"
             /\ procs[q].context_id = procs[p].context_id)
         => LET call == procs'[p].calls[Len(procs'[p].calls)] IN
            /\ call.fn = "deactivate_tool"
                 => /\ call.tool_id \in procs[p].current_tool_ids
                    /\ HasStatus(instances', call.tool_id, call.context_id,
                                 INACTIVE)
            /\ call.fn = "activate_tool"
                 => /\ call.tool_id \notin procs[p].current_tool_ids
                    /\ HasStatus(instances', call.tool_id, call.context_id,
                                 ACTIVE)]_vars

-----------------------------------------------------------------------------
(* The records under activate and deactivate alone, under SpecLifecycle *)

\* registrations, activations and deactivations; no update_tool_status
NextLifecycle ==
  \/ Tick
  \/ \E id \in ToolIdSpace : RegisterToolReq(id, DocTool)
  \/ \E t \in ToolIdSpace, c \in ToolsContextIds : ActivateToolReq(t, c, None)
  \/ \E t \in ToolIdSpace, c \in ToolsContextIds : DeactivateToolReq(t, c)

SpecLifecycle == Init /\ [][NextLifecycle]_vars

\* C29: with activate and deactivate alone, every stored record is ACTIVE or
\* INACTIVE; a pair gets its record, ACTIVE, only from an activate that
\* succeeds; a record becomes INACTIVE only from ACTIVE and by a deactivate
\* that returns true; no stored record becomes ACTIVE; and a FAILED instance
\* is seen only in the response of an activate that did not succeed
C29_LifecycleTransitions ==
  [][/\ \A i \in DOMAIN instances' : instances'[i].status \in {ACTIVE, INACTIVE}
     /\ \A pair \in StoredPairs(instances') \ StoredPairs(instances) :
          /\ Served("activate_tool")
          /\ last'.ret.success
          /\ pair = <<last'.tool_id, last'.context_id>>
          /\ HasStatus(instances', pair[1], pair[2], ACTIVE)
     /\ \A pair \in StoredPairs(instances) :
          /\ (/\ HasStatus(instances', pair[1], pair[2], INACTIVE)
              /\ ~HasStatus(instances, pair[1], pair[2], INACTIVE))
               => /\ HasStatus(instances, pair[1], pair[2], ACTIVE)
                  /\ Served("deactivate_tool")
                  /\ last'.ret = TRUE
                  /\ pair = <<last'.tool_id, last'.context_id>>
          /\ HasStatus(instances', pair[1], pair[2], ACTIVE)
               => HasStatus(instances, pair[1], pair[2], ACTIVE)
     /\ Served("activate_tool")
          => (last'.ret.instance.status = FAILED <=> ~last'.ret.success)
     /\ Served("activate_tool")
          => (last'.ret.instance.status = ACTIVE <=> last'.ret.success)]_vars

\* a pair was activated and deactivated, and a further activation of it has
\* answered a FAILED instance while the stored record stays INACTIVE
C29_Witness ==
  /\ last.op = "activate_tool"
  /\ ~last.ret.success
  /\ last.ret.instance.status = FAILED
  /\ HasStatus(instances, last.tool_id, last.context_id, INACTIVE)

-----------------------------------------------------------------------------
(* The fields of a record against its status, under SpecTools *)

\* C30: in every state a record has a deactivation timestamp only if it is
\* INACTIVE and an error message only if it is FAILED, and every INACTIVE
\* record has a deactivation timestamp
C30_TimestampStatusConsistency ==
  \A i \in DOMAIN instances :
    /\ instances[i].deactivated_at # None => instances[i].status = INACTIVE
    /\ instances[i].error_message # None => instances[i].status = FAILED
    /\ instances[i].status = INACTIVE => instances[i].deactivated_at # None

-----------------------------------------------------------------------------
(* What the tool API leaves alone, under SpecTools *)

\* C31: an activate that answers success = false changes no stored record
\* and creates none, and the instance in its response is FAILED
C31_FailedActivateChangesNothing ==
  [][(Served("activate_tool") /\ ~last'.ret.success)
       => /\ instances' = instances
          /\ last'.ret.instance.status = FAILED]_vars

\* an activate of a pair whose record is FAILED with an error message has
\* failed, and the record is still FAILED with that message
C31_Witness ==
  /\ last.op = "activate_tool"
  /\ ~last.ret.success
  /\ \E i \in RecordsOf(instances, last.tool_id, last.context_id) :
       /\ instances[i].status = FAILED
       /\ instances[i].error_message = Some("boom")
       /\ instances[i].activated_at # None

\* C32: update_tool_status for a pair without a record returns false and
\* changes nothing; for a pair with a record it adds none, leaves the other
\* records alone and changes at most status, updated_at and error_message of
\* the record, the error message only when one is given
C32_StatusUpdateFrame ==
  [][Served("update_tool_status")
       => IF RecordsOf(instances, last'.tool_id, last'.context_id) = {}
          THEN last'.ret = FALSE /\ instances' = instances
          ELSE
            /\ Len(instances') = Len(instances)
            /\ \A i \in DOMAIN instances :
                 IF i \in RecordsOf(instances, last'.tool_id, last'.context_id)
                 THEN /\ instances'[i]
                           = [instances[i] EXCEPT
                                !.status = instances'[i].status,
                                !.updated_at = instances'[i].updated_at,
                                !.error_message = instances'[i].error_message]
                      /\ last'.input[1].error_message = None
                           => instances'[i].error_message
                                = instances[i].error_message
                 ELSE instances'[i] = instances[i]]_vars

\* a record that was activated and deactivated has been set to FAILED by
\* update_tool_status and still has both timestamps
C32_Witness ==
  /\ last.op = "update_tool_status"
  /\ last.ret = TRUE
  /\ \E i \in RecordsOf(instances, last.tool_id, last.context_id) :
       /\ instances[i].status = FAILED
       /\ instances[i].activated_at # None
       /\ instances[i].deactivated_at # None
       /\ instances[i].updated_at # None

\* C33: a deactivate that returns true changes status and deactivated_at of
\* one record of the pair it names, and nothing else in the instance store
C33_DeactivateFrame ==
  [][(Served("deactivate_tool") /\ last'.ret = TRUE)
       => /\ Len(instances') = Len(instances)
          /\ \E i \in RecordsOf(instances, last'.tool_id, last'.context_id) :
               /\ instances'[i].status = INACTIVE
               /\ instances'
                    = [instances EXCEPT
                         ![i] = [@ EXCEPT
                                   !.status = instances'[i].status,
                                   !.deactivated_at
                                      = instances'[i].deactivated_at]]]_vars

\* a deactivate has returned true while the store holds the record of
\* another pair, which is still ACTIVE
C33_Witness ==
  /\ last.op = "deactivate_tool"
  /\ last.ret = TRUE
  /\ \E i \in RecordsOf(instances, last.tool_id, last.context_id) :
       /\ instances[i].status = INACTIVE
       /\ instances[i].activated_at # None
  /\ \E j \in DOMAIN instances :
       /\ <<instances[j].tool_id, instances[j].context_id>>
            # <<last.tool_id, last.context_id>>
       /\ instances[j].status = ACTIVE

-----------------------------------------------------------------------------
(* One content reconciled twice in a row, under SpecRecon *)

\* p's update_context carries the content and the metadata of the
\* update_context that completed last, for the same context, and no other
\* client has sent a request: p's requests came one after the other
SecondPass(p) ==
  /\ InFlight(p)
  /\ procs[p].op = "update_context"
  /\ Reconciled(last)
  /\ last.context_id = procs[p].context_id
  /\ last.input = procs[p].input
  /\ \A q \in Clients \ {p} : procs[q].pc = "idle"

\* C34: while a content is reconciled for the second time in a row, with
\* nothing else running, no step changes a ToolInstance record
C34_SecondPassChangesNothing ==
  [][(\E p \in Clients : SecondPass(p)) => instances' = instances]_vars

\* the second pass over a content has run its loops, the first pass had
\* activated the tool, and the tool is ACTIVE
C34_Witness ==
  \E p \in Clients :
    /\ SecondPass(p)
    /\ procs[p].pc = "upd_read"
    /\ CalledWith(last.calls, "activate_tool") = {"t1"}
    /\ HasStatus(instances, "t1", procs[p].context_id, ACTIVE)

-----------------------------------------------------------------------------
(* Reconciling while the catalog cannot be read, under SpecCatalogDown *)

\* an update_context that leaves the ToolInstance records alone when the
\* catalog cannot be read
UpdateContextCatalogDownKeeping(context_id, input, llm_metadata) ==
  LET i == FindContext(contexts, context_id) IN
  /\ i # 0
  /\ input.content # None
  /\ Serve(Completed("update_context", NoId, context_id,
                     Some([body |-> input, llm_metadata |-> llm_metadata,
                           catalog |-> "down"]),
                     Some([id |-> context_id,
                           active_tools |->
                             GetActiveTools(instances, context_id)]),
                     FALSE, << >>))
  /\ contexts' = [contexts EXCEPT ![i].content = input.content[1],
                                  ![i].metadata = llm_metadata]
  /\ UNCHANGED <<tools, instances, nextOid, now, procs>>

\* update_context with new content for a stored context while
\* tool_collection.find raises: discover_tools catches the error and returns
\* [], and _update_tools_for_context runs its two loops with that list
UpdateContextCatalogDown(context_id, input, llm_metadata) ==
  LET i == FindContext(contexts, context_id)
      current_tools == GetActiveTools(instances, context_id)
      discovered_tools == << >>
      shed == DeactivateIrrelevant(current_tools, ToolIds(discovered_tools),
                                   [instances |-> instances, calls |-> << >>],
                                   context_id, now)
      rec == ActivateDiscovered(discovered_tools,
                                InstanceToolIds(current_tools), tools, shed,
                                context_id, now)
  IN
  /\ i # 0
  /\ input.content # None
  /\ Serve(Completed("update_context", NoId, context_id,
                     Some([body |-> input, llm_metadata |-> llm_metadata,
                           catalog |-> "down"]),
                     Some([id |-> context_id,
                           active_tools |->
                             GetActiveTools(rec.instances, context_id)]),
                     FALSE, rec.calls))
  /\ instances' = rec.instances
  /\ contexts' = [contexts EXCEPT ![i].content = input.content[1],
                                  ![i].metadata = llm_metadata]
  /\ UNCHANGED <<tools, nextOid, now, procs>>

\* one context edited and its tools activated by hand, the catalog readable
\* or not during an edit
NextCatalogDown ==
  \/ Tick
  \/ \E id \in ToolIdSpace : RegisterToolReq(id, DocTool)
  \/ \E t \in ToolIdSpace : ActivateToolReq(t, ObjectIds[1], None)
  \/ \E input \in {u \in ContextUpdates : u.content # None},
         m \in LLMMetadata :
       UpdateContextReq(ObjectIds[1], input, m)
  \/ \E input \in {u \in ContextUpdates : u.content # None},
         m \in LLMMetadata :
       UpdateContextCatalogDown(ObjectIds[1], input, m)

SpecCatalogDown == InitRecon /\ [][NextCatalogDown]_vars

\* C35: a reconciliation during which the catalog cannot be read issues no
\* activate call, calls deactivate for exactly the tools that were ACTIVE for
\* the context, leaves each of them INACTIVE and every other record as it
\* was, and answers with no active tool
C35_CatalogFailureShedsAll ==
  [][(/\ Served("update_context")
      /\ "catalog" \in DOMAIN last'.input[1])
       => /\ CalledWith(last'.calls, "activate_tool") = {}
          /\ CalledWith(last'.calls, "deactivate_tool")
               = {instances[j].tool_id : j \in
                    {k \in DOMAIN instances :
                       /\ instances[k].context_id = last'.context_id
                       /\ instances[k].status = ACTIVE}}
          /\ DOMAIN instances' = DOMAIN instances
          /\ \A j \in DOMAIN instances :
               IF /\ instances[j].context_id = last'.context_id
                  /\ instances[j].status = ACTIVE
               THEN instances'[j].status = INACTIVE
               ELSE instances'[j] = instances[j]
          /\ last'.ret[1].active_tools = << >>]_vars

\* a reconciliation without the catalog has just shed two ACTIVE tools, one
\* of which the new content matches
C35_Witness ==
  /\ last.op = "update_context"
  /\ last.input # << >>
  /\ "catalog" \in DOMAIN last.input[1]
  /\ last.input[1].body.content = Some(GuideText)
  /\ CalledWith(last.calls, "deactivate_tool") = {"t1", "t2"}
  /\ HasStatus(instances, "t1", last.context_id, INACTIVE)
  /\ HasStatus(instances, "t2", last.context_id, INACTIVE)

-----------------------------------------------------------------------------
(* Activation rules, the enabled flag and edits of one context, under      *)
(* SpecSettings                                                            *)

\* an auto-activating tool selected by one activation rule
ProdTool ==
  [metadata |-> FullMetadata,
   capabilities |-> <<"testing">>,
   configuration |-> [enabled |-> TRUE, auto_activate |-> TRUE],
   context_patterns |-> << >>,
   activation_rules |-> [env |-> "prod"]]

\* GuideTool registered with enabled = false
DisabledGuideTool ==
  [GuideTool EXCEPT !.configuration.enabled = FALSE]

\* bodies of PUT /contexts/{context_id} that carry metadata and no content
MetadataUpdates ==
  {[content |-> None, metadata |-> Some(md)] :
     md \in {[env |-> "prod"], [env |-> "dev"]}}

\* tools registered with rules and flags, one context created, edited in its
\* content or in its metadata alone, and tools activated for it by hand
NextSettings ==
  \/ \E id \in ToolIdSpace, payload \in {ProdTool, GuideTool, DisabledGuideTool} :
       RegisterToolReq(id, payload)
  \/ \E input \in {c \in ContextCreates :
                      /\ c.content = NotesText
                      /\ c.content_type = "infrastructure"},
         m \in LLMMetadata :
       CreateContextReq(input, m)
  \/ \E t \in ToolIdSpace : ActivateToolReq(t, ObjectIds[1], None)
  \/ \E input \in {u \in ContextUpdates : u.content # None},
         m \in LLMMetadata \cup {[env |-> "prod"]} :
       UpdateContextReq(ObjectIds[1], input, m)
  \/ \E input \in MetadataUpdates, m \in LLMMetadata :
       UpdateContextReq(ObjectIds[1], input, m)

SpecSettings == Init /\ [][NextSettings]_vars

\* C36: an update_context of a stored context without content issues no
\* activate or deactivate call and leaves every ToolInstance record as it
\* was; one with content calls deactivate for exactly the ACTIVE tools the
\* new content does not select, and ends with every ACTIVE tool selected
C36_ReconcileOnlyOnContent ==
  [][(Served("update_context") /\ last'.ret # << >>)
       => LET body == last'.input[1].body
              c == last'.context_id
              stored == contexts[FindContext(contexts, c)]
              active == InstanceToolIds(GetActiveTools(instances, c))
          IN
          IF body.content = << >>
          THEN last'.calls = << >> /\ instances' = instances
          ELSE LET selected ==
                     ToolIds(DiscoverTools(tools,
                               [content |-> body.content[1],
                                content_type |-> stored.content_type,
                                metadata |-> last'.input[1].llm_metadata]))
               IN /\ CalledWith(last'.calls, "deactivate_tool")
                       = active \ selected
                  /\ InstanceToolIds(GetActiveTools(instances', c))
                       \subseteq selected]_vars

\* an update of the metadata alone has just been served, and the metadata
\* now stored satisfy the rule of an auto-activating tool that has no ACTIVE
\* instance for the context
C36_Witness ==
  /\ last.op = "update_context"
  /\ last.ret # << >>
  /\ last.input[1].body.content = << >>
  /\ \E i \in DOMAIN tools :
       LET stored == contexts[FindContext(contexts, last.context_id)] IN
       /\ AutoActivate(tools[i])
       /\ \E k \in DOMAIN tools[i].activation_rules :
            /\ k \in DOMAIN stored.metadata
            /\ stored.metadata[k] = tools[i].activation_rules[k]
       /\ ~HasStatus(instances, tools[i].id, last.context_id, ACTIVE)

-----------------------------------------------------------------------------
(* auto_discover_and_activate as create_context runs it, under Spec *)

\* C37: a create_context ends with one activate call for every discovered
\* auto_activate tool, and returns the instances of exactly the calls that
\* reported success
C37_EveryAutoToolAttempted ==
  last.op = "create_context"
    => /\ ~last.raised
       /\ CalledWith(last.calls, "activate_tool")
            = AutoMatchingIds(CreatedContext(last))
       /\ InstanceToolIds(last.ret[1].active_tools)
            = {last.calls[i].tool_id :
                 i \in {j \in DOMAIN last.calls : last.calls[j].ok}}

\* C38: in every state, for the stored context and each content it may be
\* given, discovery selects the same tools, creation and reconciliation make
\* the same calls and leave the same records, and a manual activation of any
\* tool id answers and stores the same, when the enabled flag of every
\* catalog tool is inverted
C38_EnabledFlagIgnored ==
  LET flipped == [i \in DOMAIN tools |->
                    [tools[i] EXCEPT !.configuration.enabled = ~@]]
  IN
  \A j \in DOMAIN contexts : \A content \in Contents :
    LET context == [content |-> content,
                    content_type |-> contexts[j].content_type,
                    metadata |-> contexts[j].metadata]
        c == contexts[j]._id
    IN
    /\ ToolIds(DiscoverTools(flipped, context))
         = ToolIds(DiscoverTools(tools, context))
    /\ AutoDiscoverAndActivate(flipped, instances, context)
         = AutoDiscoverAndActivate(tools, instances, context)
    /\ UpdateToolsForContext(flipped, instances, context, c, now)
         = UpdateToolsForContext(tools, instances, context, c, now)
    /\ \A t \in ToolIdSpace :
         ActivateTool(flipped, instances, t, c, now)
           = ActivateTool(tools, instances, t, c, now)

\* a tool registered with enabled = false and one registered with
\* enabled = true are both ACTIVE for the context: the first was activated
\* by the reconciliation just served, the second by hand
C38_Witness ==
  /\ last.op = "update_context"
  /\ \E i, k \in DOMAIN tools :
       /\ ~tools[i].configuration.enabled
       /\ tools[k].configuration.enabled
       /\ HasStatus(instances, tools[i].id, last.context_id, ACTIVE)
       /\ HasStatus(instances, tools[k].id, last.context_id, ACTIVE)
       /\ tools[k].id \notin CalledWith(last.calls, "activate_tool")
       /\ \E n \in DOMAIN last.calls :
            /\ last.calls[n].fn = "activate_tool"
            /\ last.calls[n].tool_id = tools[i].id
            /\ last.calls[n].ok

-----------------------------------------------------------------------------
(* The self-healing service: attempt_healing on one detected bug, under    *)
(* SpecHealing                                                             *)

\* HealingAction(action_type, description, risk_level, requires_approval)
HealingAction(action_type, risk_level, requires_approval) ==
  [action_type |-> action_type, risk_level |-> risk_level,
   requires_approval |-> requires_approval]

\* _initialize_healing_actions: the actions of each BugCategory, as listed
HealingActions ==
  [DATABASE |-> <<HealingAction("restart_connection_pool", "LOW", FALSE),
                  HealingAction("clear_connections", "LOW", FALSE),
                  HealingAction("increase_pool_size", "MEDIUM", FALSE),
                  HealingAction("restart_service", "HIGH", TRUE)>>,
   MEMORY |-> <<HealingAction("clear_cache", "LOW", FALSE),
                HealingAction("garbage_collection", "LOW", FALSE),
                HealingAction("restart_service", "MEDIUM", FALSE),
                HealingAction("increase_memory_limit", "HIGH", TRUE)>>,
   NETWORK |-> <<HealingAction("retry_connection", "LOW", FALSE),
                 HealingAction("reset_connection_pool", "LOW", FALSE),
                 HealingAction("switch_endpoint", "MEDIUM", FALSE),
                 HealingAction("restart_network_service", "HIGH", TRUE)>>,
   DISK |-> <<HealingAction("clear_temp_files", "LOW", FALSE),
              HealingAction("clear_logs", "LOW", FALSE),
              HealingAction("compress_files", "MEDIUM", FALSE),
              HealingAction("increase_disk_quota", "HIGH", TRUE)>>,
   APPLICATION |-> <<HealingAction("clear_cache", "LOW", FALSE),
                     HealingAction("reload_configuration", "MEDIUM", FALSE),
                     HealingAction("restart_service", "MEDIUM", FALSE),
                     HealingAction("rollback_deployment", "HIGH", TRUE)>>,
   SECURITY |-> <<HealingAction("revoke_tokens", "MEDIUM", FALSE),
                  HealingAction("enable_rate_limiting", "LOW", FALSE),
                  HealingAction("block_ip", "HIGH", TRUE),
                  HealingAction("rotate_credentials", "HIGH", TRUE)>>]

\* a filter that lets an action through once it is marked as approved by
\* hand, whatever its risk
FilterApplicableActionsByApproval(actions, force, settings) ==
  SelectSeq(actions,
    LAMBDA action :
      \/ action.risk_level = "LOW" /\ settings.AUTO_HEAL_LOW_RISK
      \/ action.risk_level = "MEDIUM" /\ settings.AUTO_HEAL_MEDIUM_RISK
      \/ action.risk_level = "HIGH" /\ action.requires_approval)

\* _filter_applicable_actions
FilterApplicableActions(actions, force, settings) ==
  SelectSeq(actions,
    LAMBDA action :
      \/ action.risk_level = "LOW" /\ settings.AUTO_HEAL_LOW_RISK
      \/ action.risk_level = "MEDIUM" /\ settings.AUTO_HEAL_MEDIUM_RISK
      \/ /\ action.risk_level = "HIGH"
         /\ (settings.AUTO_HEAL_HIGH_RISK \/ force))

\* _execute_action: a simulation that sleeps and returns True
ExecuteAction(action, bug) == TRUE

\* the loop of attempt_healing over the applicable actions: each execution
\* is recorded, and the first one that returns True ends the loop
RECURSIVE ExecuteApplicable(_, _, _)
ExecuteApplicable(applicable_actions, bug, actions_taken) ==
  IF applicable_actions = << >>
  THEN [success |-> FALSE, actions_taken |-> actions_taken]
  ELSE
    LET action == Head(applicable_actions)
        result == ExecuteAction(action, bug)
        taken == Append(actions_taken,
                        [action_type |-> action.action_type,
                         status |-> IF result THEN "success" ELSE "failed"])
    IN IF result THEN [success |-> TRUE, actions_taken |-> taken]
       ELSE ExecuteApplicable(Tail(applicable_actions), bug, taken)

\* _update_bug_status: nothing without a database; `not self.db` on a
\* database object either answers False or, with a driver whose database
\* objects refuse truth testing, raises; then update_one on db.bugs
UpdateBugStatus(db, bug_id, success, actions_taken) ==
  IF db = None THEN [raised |-> FALSE, db |-> db]
  ELSE IF ~db[1].truth_testing THEN [raised |-> TRUE, db |-> db]
  ELSE
    [raised |-> FALSE,
     db |-> Some([db[1] EXCEPT !.bugs =
              UpdateOne(db[1].bugs,
                {i \in DOMAIN db[1].bugs : db[1].bugs[i].bug_id = bug_id},
                [i \in DOMAIN db[1].bugs |->
                   [db[1].bugs[i] EXCEPT !.healing_attempted = TRUE,
                                         !.healing_success = Some(success),
                                         !.healing_actions = actions_taken]]).coll])]

\* attempt_healing(bug, force): what it returns, the actions it executed, in
\* order, and the database afterwards, with the bug's status updated and
\* the attempt logged by _log_healing_attempt (timestamps and the attempt id
\* are left out)
AttemptHealing(db, bug, force, settings) ==
  LET actions == IF bug.category \in DOMAIN HealingActions
                 THEN HealingActions[bug.category] ELSE << >>
      applicable_actions == FilterApplicableActions(actions, force, settings)
      run == ExecuteApplicable(applicable_actions, bug, << >>)
      upd == UpdateBugStatus(db, bug.bug_id, run.success, run.actions_taken)
      logged == IF upd.raised \/ upd.db = None THEN upd.db
                ELSE Some([upd.db[1] EXCEPT !.healing_attempts =
                             Append(@, [bug_id |-> bug.bug_id,
                                        actions_taken |-> run.actions_taken,
                                        success |-> run.success])])
  IN
  IF actions = << >>
  THEN [raised |-> FALSE, db |-> db, executed |-> << >>,
        ret |-> Some([success |-> FALSE, actions_taken |-> << >>,
                      requires_approval |-> FALSE])]
  ELSE IF applicable_actions = << >>
  THEN [raised |-> FALSE, db |-> db, executed |-> << >>,
        ret |-> Some([success |-> FALSE, actions_taken |-> << >>,
                      requires_approval |-> TRUE,
                      available_actions |-> actions])]
  ELSE [raised |-> upd.raised, db |-> logged,
        executed |-> run.actions_taken,
        ret |-> IF upd.raised THEN None
                ELSE Some([success |-> run.success,
                           actions_taken |-> run.actions_taken,
                           requires_approval |-> FALSE])]

\* POST /bugs/{bug_id}/heal, once get_bug has found the bug: the settings in
\* force, the database handle of the service and the force flag are the
\* inputs; the completed request keeps the database as the call left it
AttemptHealingReq(category, force, settings, db) ==
  LET bug == [bug_id |-> "bug1", category |-> category]
      h == AttemptHealing(db, bug, force, settings)
  IN
  /\ Serve(Completed("attempt_healing", NoId, NoId,
                     Some([bug |-> bug, force |-> force,
                           settings |-> settings, db |-> db]),
                     h.ret, h.raised, h.executed) @@ [db |-> h.db])
  /\ UNCHANGED <<tools, instances, contexts, nextOid, now, procs>>

\* the database handle of the service: missing, or a connection through
\* either kind of driver that holds the bug's document
BugDatabases ==
  {None}
    \cup {Some([truth_testing |-> t,
                bugs |-> <<[bug_id |-> "bug1",
                            healing_attempted |-> FALSE,
                            healing_success |-> None,
                            healing_actions |-> << >>]>>,
                healing_attempts |-> << >>]) :
            t \in BOOLEAN}

\* healing requests for a bug of any category, under any settings, with the
\* service's database missing or connected through either kind of driver
NextHealing ==
  \E category \in DOMAIN HealingActions, force \in BOOLEAN,
     settings \in [AUTO_HEAL_LOW_RISK : BOOLEAN,
                   AUTO_HEAL_MEDIUM_RISK : BOOLEAN,
                   AUTO_HEAL_HIGH_RISK : BOOLEAN],
     db \in BugDatabases :
    AttemptHealingReq(category, force, settings, db)

SpecHealing == Init /\ [][NextHealing]_vars

\* C39: a completed attempt_healing executed a HIGH-risk action only with
\* force or AUTO_HEAL_HIGH_RISK set; when the settings and force permit none
\* of the category's actions it executed nothing, returned success false
\* with requires_approval true and left the bug's document as it was;
\* otherwise it executed the first permitted action of the list, which
\* succeeded, and nothing after it
C39_RiskGate ==
  last.op = "attempt_healing"
    => LET given == last.input[1]
           actions == HealingActions[given.bug.category]
           permitted ==
             SelectSeq(actions,
               LAMBDA a :
                 \/ a.risk_level = "LOW" /\ given.settings.AUTO_HEAL_LOW_RISK
                 \/ /\ a.risk_level = "MEDIUM"
                    /\ given.settings.AUTO_HEAL_MEDIUM_RISK
                 \/ /\ a.risk_level = "HIGH"
                    /\ (given.settings.AUTO_HEAL_HIGH_RISK \/ given.force))
       IN
       /\ \A i \in DOMAIN last.calls :
            (\E j \in DOMAIN actions :
               /\ actions[j].action_type = last.calls[i].action_type
               /\ actions[j].risk_level = "HIGH")
              => (given.force \/ given.settings.AUTO_HEAL_HIGH_RISK)
       /\ IF permitted = << >>
          THEN /\ last.calls = << >>
               /\ ~last.raised
               /\ ~last.ret[1].success
               /\ last.ret[1].requires_approval
               /\ last.db = given.db
          ELSE /\ Len(last.calls) = 1
               /\ last.calls[1].action_type = permitted[1].action_type
               /\ last.calls[1].status = "success"

\* a healing without force under the default settings has run for a
\* SECURITY bug: the MEDIUM-risk action listed first was executed, the two
\* HIGH-risk ones were not, and the bug's document records the success
C39_Witness ==
  /\ last.op = "attempt_healing"
  /\ last.input[1].bug.category = "SECURITY"
  /\ ~last.input[1].force
  /\ last.input[1].settings
       = [AUTO_HEAL_LOW_RISK |-> TRUE, AUTO_HEAL_MEDIUM_RISK |-> TRUE,
          AUTO_HEAL_HIGH_RISK |-> FALSE]
  /\ last.calls = <<[action_type |-> "revoke_tokens", status |-> "success"]>>
  /\ last.db # << >>
  /\ last.db[1].bugs[1].healing_success = <<TRUE>>
  /\ Len(last.db[1].healing_attempts) = 1

====
